---- MODULE Spec2Model ----
(***************************************************************************)
(* Model of the time-partitioned Parquet access layer                      *)
(* (parquet_reader_lib.cpp / parquet_reader_lib.h): file discovery, the    *)
(* batched column cursor, the list assemblers, the three row-group         *)
(* streamers (top, trade, depth) and the batch readers' next().            *)
(***************************************************************************)
EXTENDS Integers, Sequences, FiniteSets, TLC

\* ------------------------------------------------------------------ bounds
\* Longest candidate list a reader is constructed with.
MaxFiles == 2
\* Window bounds start_ns / end_ns range over 0..MaxTs.
MaxTs == 4
\* Int64Cursor::BATCH (65536 in the source), scaled down so that a column of
\* a few levels needs several refills.
BATCH == 2

\* Nanoseconds per second (1'000'000'000 in the source) and seconds per day
\* (86400 in the source), scaled down; a day has NsPerSec * SecPerDay ticks.
NsPerSec == 2
SecPerDay == 2
\* Discovery is asked for windows of at most MaxSpanDays days.
MaxSpanDays == 2

\* ----------------------------------------------------------------- helpers
Min(a, b) == IF a < b THEN a ELSE b

Range(q) == {q[i] : i \in DOMAIN q}

\* F applied to v: names an intermediate result (a local of the code) once.
With(v, F(_)) == F(v)

RECURSIVE SumSeq(_)
SumSeq(q) == IF q = <<>> THEN 0 ELSE Head(q) + SumSeq(Tail(q))

RECURSIVE Concat(_)
Concat(qq) == IF qq = <<>> THEN <<>> ELSE Head(qq) \o Concat(Tail(qq))

\* std::vector::resize(n): keeps the first n elements, value-initialises the rest.
Resize(v, n) == [i \in 1..n |-> IF i <= Len(v) THEN v[i] ELSE 0]

\* As InRange with the upper bound included (t <= end_ns).
InRange_Closed(t, s, e) == t >= s /\ t <= e

\* The in-window predicate  t >= start_ns && t < end_ns.
InRange(t, s, e) == t >= s /\ t < e

\* As Scatter, writing the kept values from the back of the buffer.
RECURSIVE Scatter_Reversed(_, _, _)
Scatter_Reversed(q, ts, w) ==
  IF ts = <<>> THEN <<>>
  ELSE Scatter_Reversed(Tail(q), Tail(ts), w)
         \o (IF Head(ts) >= w.s /\ Head(ts) < w.e THEN <<Head(q)>> ELSE <<>>)

\* As Scatter, copying the first values of the column instead of those at the
\* in-window positions.
Scatter_Prefix(q, ts, w) ==
  SubSeq(q, 1, Cardinality({i \in DOMAIN ts : ts[i] >= w.s /\ ts[i] < w.e}))

\* The scatter copy  if (in-window) dst[w++] = src[i]: the values of q at the
\* positions whose timestamp is in the window w, order kept.
RECURSIVE Scatter(_, _, _)
Scatter(q, ts, w) ==
  IF ts = <<>> THEN <<>>
  ELSE (IF InRange(Head(ts), w.s, w.e) THEN <<Head(q)>> ELSE <<>>)
         \o Scatter(Tail(q), Tail(ts), w)

\* ------------------------------------------------- physical column reader
\* A leaf column of one row group as the Parquet library delivers it: the
\* definition / repetition level streams and the stream of present values.
\* ReadBatch(n) hands out the next (at most n) levels and the values that go
\* with them; a truncated column chunk holds fewer values than its levels ask.
\* A call does not read beyond the end of the data page it is in: pages is
\* the set of level positions after which a page ends.
ReadBatch(col, lpos, vpos, n) ==
  LET stop == IF \E p \in col.pages : p > lpos
              THEN CHOOSE p \in col.pages : p > lpos /\ \A q \in col.pages : q > lpos => p <= q
              ELSE Len(col.def)
      nl   == Min(n, Min(stop, Len(col.def)) - lpos)
      want == Cardinality({i \in (lpos + 1)..(lpos + nl) : col.def[i] = col.max_def})
      nv   == Min(want, Len(col.val) - vpos)
  IN [levels      |-> nl,
      defs        |-> SubSeq(col.def, lpos + 1, lpos + nl),
      reps        |-> SubSeq(col.rep, lpos + 1, lpos + nl),
      vals        |-> SubSeq(col.val, vpos + 1, vpos + nv),
      values_read |-> nv]

\* ------------------------------------------------------------ Entry, cursor
NoEntry == [def |-> 0, rep |-> 0, has_value |-> FALSE, value |-> 0, valid |-> FALSE]

\* Int64Cursor(col, descr): throws when the column is not INT64.
NewCursor(col) ==
  [col |-> col, lpos |-> 0, vpos |-> 0,
   max_def |-> col.max_def, max_rep |-> col.max_rep,
   eof |-> FALSE, has_pending |-> FALSE, pending |-> NoEntry, nreads |-> 0,
   defbuf |-> <<>>, repbuf |-> <<>>, valbuf |-> <<>>,
   levels_in_buf |-> 0, level_idx |-> 0, values_in_buf |-> 0, value_idx |-> 0]

\* As Refill, with the end of the column not marked.
Refill_NoMark(c) ==
  IF c.eof THEN [c |-> c, ok |-> FALSE]
  ELSE With(ReadBatch(c.col, c.lpos, c.vpos, BATCH), LAMBDA b :
         IF b.levels = 0
         THEN [c |-> [c EXCEPT !.levels_in_buf = 0, !.nreads = c.nreads + 1], ok |-> FALSE]
         ELSE [c |-> [c EXCEPT !.lpos = c.lpos + b.levels, !.nreads = c.nreads + 1,
                               !.vpos = c.vpos + b.values_read,
                               !.defbuf = b.defs, !.repbuf = b.reps, !.valbuf = b.vals,
                               !.levels_in_buf = b.levels, !.level_idx = 0,
                               !.value_idx = 0, !.values_in_buf = b.values_read],
               ok |-> TRUE])

\* As Refill, with the read position in the value buffer kept across reads.
Refill_KeepValueIdx(c) ==
  IF c.eof THEN [c |-> c, ok |-> FALSE]
  ELSE With(ReadBatch(c.col, c.lpos, c.vpos, BATCH), LAMBDA b :
         IF b.levels = 0
         THEN [c |-> [c EXCEPT !.eof = TRUE, !.levels_in_buf = 0,
                               !.nreads = c.nreads + 1], ok |-> FALSE]
         ELSE [c |-> [c EXCEPT !.lpos = c.lpos + b.levels, !.nreads = c.nreads + 1,
                               !.vpos = c.vpos + b.values_read,
                               !.defbuf = b.defs, !.repbuf = b.reps, !.valbuf = b.vals,
                               !.levels_in_buf = b.levels, !.level_idx = 0,
                               !.values_in_buf = b.values_read],
               ok |-> TRUE])

\* Int64Cursor::refill; nreads counts the ReadBatch calls issued.
Refill(c) ==
  IF c.eof THEN [c |-> c, ok |-> FALSE]
  ELSE With(ReadBatch(c.col, c.lpos, c.vpos, BATCH), LAMBDA b :
         IF b.levels = 0
         THEN [c |-> [c EXCEPT !.eof = TRUE, !.levels_in_buf = 0,
                               !.nreads = c.nreads + 1], ok |-> FALSE]
         ELSE [c |-> [c EXCEPT !.lpos = c.lpos + b.levels, !.nreads = c.nreads + 1,
                               !.vpos = c.vpos + b.values_read,
                               !.defbuf = b.defs, !.repbuf = b.reps, !.valbuf = b.vals,
                               !.levels_in_buf = b.levels, !.level_idx = 0,
                               !.value_idx = 0, !.values_in_buf = b.values_read],
               ok |-> TRUE])

\* As HasValue, with every defined level taken for a present value.
HasValue_Defined(def, max_def) == def >= 1

\* e.def == max_def
HasValue(def, max_def) == def = max_def

\* Int64Cursor::ensure_pending; thr = the runtime_error "value_idx overflow".
EnsurePending(c) ==
  IF c.eof /\ ~c.has_pending THEN [c |-> c, ok |-> FALSE, thr |-> FALSE]
  ELSE IF c.has_pending THEN [c |-> c, ok |-> TRUE, thr |-> FALSE]
  ELSE With(IF c.level_idx >= c.levels_in_buf THEN Refill(c) ELSE [c |-> c, ok |-> TRUE],
         LAMBDA f :
         IF ~f.ok THEN [c |-> f.c, ok |-> FALSE, thr |-> FALSE]
         ELSE LET d   == f.c
                  def == IF d.max_def # 0 THEN d.defbuf[d.level_idx + 1] ELSE 0
                  rep == IF d.max_rep # 0 THEN d.repbuf[d.level_idx + 1] ELSE 0
              IN IF HasValue(def, d.max_def)
                 THEN IF d.value_idx >= d.values_in_buf
                      THEN [c |-> d, ok |-> FALSE, thr |-> TRUE]
                      ELSE [c |-> [d EXCEPT !.value_idx = d.value_idx + 1,
                                            !.level_idx = d.level_idx + 1,
                                            !.has_pending = TRUE,
                                            !.pending = [def |-> def, rep |-> rep,
                                                         has_value |-> TRUE,
                                                         value |-> d.valbuf[d.value_idx + 1],
                                                         valid |-> TRUE]],
                            ok |-> TRUE, thr |-> FALSE]
                 ELSE [c |-> [d EXCEPT !.level_idx = d.level_idx + 1,
                                       !.has_pending = TRUE,
                                       !.pending = [def |-> def, rep |-> rep,
                                                    has_value |-> FALSE,
                                                    value |-> 0, valid |-> TRUE]],
                       ok |-> TRUE, thr |-> FALSE])

\* Int64Cursor::take
Take(c) ==
  With(EnsurePending(c), LAMBDA r :
    IF r.thr THEN [c |-> r.c, e |-> NoEntry, thr |-> TRUE]
    ELSE IF ~r.ok THEN [c |-> r.c, e |-> NoEntry, thr |-> FALSE]
    ELSE [c |-> [r.c EXCEPT !.has_pending = FALSE], e |-> r.c.pending, thr |-> FALSE])

\* As Peek, with the "value_idx overflow" error taken for the end of the column.
Peek_Swallow(c) ==
  With(EnsurePending(c), LAMBDA r :
    IF r.thr \/ ~r.ok THEN [c |-> r.c, nil |-> TRUE, e |-> NoEntry, thr |-> FALSE]
    ELSE [c |-> r.c, nil |-> FALSE, e |-> r.c.pending, thr |-> FALSE])

\* As Peek, with the pending entry handed out as take hands it out.
Peek_Consumes(c) ==
  With(EnsurePending(c), LAMBDA r :
    IF r.thr THEN [c |-> r.c, nil |-> TRUE, e |-> NoEntry, thr |-> TRUE]
    ELSE IF ~r.ok THEN [c |-> r.c, nil |-> TRUE, e |-> NoEntry, thr |-> FALSE]
    ELSE [c |-> [r.c EXCEPT !.has_pending = FALSE], nil |-> FALSE, e |-> r.c.pending,
          thr |-> FALSE])

\* Int64Cursor::peek; nil = the null pointer it returns at end of column.
Peek(c) ==
  With(EnsurePending(c), LAMBDA r :
    IF r.thr THEN [c |-> r.c, nil |-> TRUE, e |-> NoEntry, thr |-> TRUE]
    ELSE IF ~r.ok THEN [c |-> r.c, nil |-> TRUE, e |-> NoEntry, thr |-> FALSE]
    ELSE [c |-> r.c, nil |-> FALSE, e |-> r.c.pending, thr |-> FALSE])

\* ------------------------------------------------------------ list assembler
\* As LeafLoop, stopping at the first entry whose successor continues the list.
LeafLoop_StopEarly(leaf, out, count, wr) ==
  With(Take(leaf), LAMBDA t :
  With(Peek(t.c), LAMBDA n :
    [c |-> n.c, out |-> IF wr THEN Append(out, t.e.value) ELSE out,
     count |-> count + 1, thr |-> t.thr \/ n.thr]))

\* The while(true) loop of append_list_from_leaf_for_row; wr = out_vals is
\* not null.
RECURSIVE LeafLoop(_, _, _, _)
LeafLoop(leaf, out, count, wr) ==
  With(Take(leaf), LAMBDA t :
  With(Peek(t.c), LAMBDA n :
    LET out1 == IF wr THEN Append(out, t.e.value) ELSE out
    IN IF t.thr \/ n.thr THEN [c |-> n.c, out |-> out1, count |-> count + 1, thr |-> TRUE]
       ELSE IF n.nil \/ n.e.rep = 0
            THEN [c |-> n.c, out |-> out1, count |-> count + 1, thr |-> FALSE]
            ELSE LeafLoop(n.c, out1, count + 1, wr)))

\* As AppendListFromLeaf without the test for an absent or empty list.
AppendListFromLeaf_NoEmptyStart(leaf, out, wr) ==
  With(Peek(leaf), LAMBDA p :
    IF p.thr THEN [c |-> p.c, out |-> out, count |-> 0, thr |-> TRUE]
    ELSE IF p.nil THEN [c |-> p.c, out |-> out, count |-> 0, thr |-> FALSE]
    ELSE LeafLoop(p.c, out, 0, wr))

\* append_list_from_leaf_for_row
AppendListFromLeaf(leaf, out, wr) ==
  With(Peek(leaf), LAMBDA p :
    IF p.thr THEN [c |-> p.c, out |-> out, count |-> 0, thr |-> TRUE]
    ELSE IF p.nil THEN [c |-> p.c, out |-> out, count |-> 0, thr |-> FALSE]
    ELSE IF ~p.e.has_value /\ p.e.rep = 0
         THEN [c |-> Take(p.c).c, out |-> out, count |-> 0, thr |-> FALSE]
         ELSE LeafLoop(p.c, out, 0, wr))

\* As PairLoop without the comparison of the two next repetition levels.
RECURSIVE PairLoop_PxOnly(_, _, _, _, _, _)
PairLoop_PxOnly(px, qty, opx, oqty, count, wr) ==
  With(Take(px), LAMBDA tp :
  With(Take(qty), LAMBDA tq :
  With(Peek(tp.c), LAMBDA np :
  With(Peek(tq.c), LAMBDA nq :
    LET opx1 == IF wr THEN Append(opx, tp.e.value) ELSE opx
        oqy1 == IF wr THEN Append(oqty, tq.e.value) ELSE oqty
        res(thr) == [px |-> np.c, qty |-> nq.c, opx |-> opx1, oqty |-> oqy1,
                     count |-> count + 1, thr |-> thr]
    IN IF tp.thr \/ tq.thr \/ np.thr \/ nq.thr THEN res(TRUE)
       ELSE IF np.nil \/ nq.nil THEN res(FALSE)
       ELSE IF np.e.rep = 0 THEN res(FALSE)
       ELSE PairLoop_PxOnly(np.c, nq.c, opx1, oqy1, count + 1, wr)))))

\* The while(true) loop of append_list_pairs_for_row_typed.
RECURSIVE PairLoop(_, _, _, _, _, _)
PairLoop(px, qty, opx, oqty, count, wr) ==
  With(Take(px), LAMBDA tp :
  With(Take(qty), LAMBDA tq :
  With(Peek(tp.c), LAMBDA np :
  With(Peek(tq.c), LAMBDA nq :
    LET opx1 == IF wr THEN Append(opx, tp.e.value) ELSE opx
        oqy1 == IF wr THEN Append(oqty, tq.e.value) ELSE oqty
        res(thr) == [px |-> np.c, qty |-> nq.c, opx |-> opx1, oqty |-> oqy1,
                     count |-> count + 1, thr |-> thr]
    IN IF tp.thr \/ tq.thr \/ np.thr \/ nq.thr THEN res(TRUE)
       ELSE IF np.nil \/ nq.nil THEN res(FALSE)
       ELSE IF np.e.rep = 0 THEN res(FALSE)
       ELSE IF np.e.rep # nq.e.rep THEN res(FALSE)
       ELSE PairLoop(np.c, nq.c, opx1, oqy1, count + 1, wr)))))

\* As AppendListPairs without the test for two absent or empty lists.
AppendListPairs_NoEmptyStart(px, qty, opx, oqty, wr) ==
  With(Peek(px), LAMBDA pp :
  With(Peek(qty), LAMBDA qp :
    LET res(thr) == [px |-> pp.c, qty |-> qp.c, opx |-> opx, oqty |-> oqty,
                     count |-> 0, thr |-> thr]
    IN IF pp.thr \/ qp.thr THEN res(TRUE)
       ELSE IF pp.nil \/ qp.nil THEN res(FALSE)
       ELSE PairLoop(pp.c, qp.c, opx, oqty, 0, wr)))

\* append_list_pairs_for_row_typed
AppendListPairs(px, qty, opx, oqty, wr) ==
  With(Peek(px), LAMBDA pp :
  With(Peek(qty), LAMBDA qp :
    LET res(thr) == [px |-> pp.c, qty |-> qp.c, opx |-> opx, oqty |-> oqty,
                     count |-> 0, thr |-> thr]
    IN IF pp.thr \/ qp.thr THEN res(TRUE)
       ELSE IF pp.nil \/ qp.nil THEN res(FALSE)
       ELSE IF (~pp.e.has_value /\ pp.e.rep = 0) /\ (~qp.e.has_value /\ qp.e.rep = 0)
            THEN [px |-> Take(pp.c).c, qty |-> Take(qp.c).c, opx |-> opx, oqty |-> oqty,
                  count |-> 0, thr |-> FALSE]
            ELSE PairLoop(pp.c, qp.c, opx, oqty, 0, wr)))

\* ------------------------------------------------- Select flags and columns
\* TopSelect / TradeSelect / DeltaSelect: a selection is the set of the flags
\* that are true.  The flags other than ts, in the order next_rg reads them.
TopFlags ==
  <<"ask_px", "ask_qty", "bid_px", "bid_qty", "valu",
    "min_bid_px", "max_bid_px", "min_ask_px", "max_ask_px",
    "min_bid_ts", "max_bid_ts", "min_ask_ts", "max_ask_ts">>

TradeFlags ==
  <<"px", "qty", "tradeId", "buyerOrderId", "sellerOrderId",
    "tradeTime", "isMarket", "eventTime">>

DepthScalarFlags == <<"firstId", "lastId", "eventTime">>
DepthListFlags == <<"ask_px", "ask_qty", "bid_px", "bid_qty">>

ScalarFlags(k) == IF k = "top" THEN TopFlags ELSE TradeFlags

\* The schema path find_col_idx is asked for.
ColName(k, flag) ==
  IF k = "depth"
  THEN CASE flag = "ask_px"  -> "ask.list.element.px"
         [] flag = "ask_qty" -> "ask.list.element.qty"
         [] flag = "bid_px"  -> "bid.list.element.px"
         [] flag = "bid_qty" -> "bid.list.element.qty"
         [] OTHER -> flag
  ELSE flag

\* The physical type the reader expects of a column.
ColType(k, flag) == IF k = "trade" /\ flag = "isMarket" THEN "BOOLEAN" ELSE "INT64"

\* The reader's batch buffers (ts_, apx_, ..., ask_off_, ...), named by flag.
BufNames(k) ==
  IF k = "depth"
  THEN {"ts", "ask_off", "bid_off"} \cup Range(DepthScalarFlags) \cup Range(DepthListFlags)
  ELSE {"ts"} \cup Range(ScalarFlags(k))

EmptyBufs(k) == [b \in BufNames(k) |-> <<>>]

\* A lookup that finds every column, whatever the file's schema.
HasCol_Always(f, name) == TRUE

\* find_col_idx(schema, name) >= 0
HasCol(f, name) == name \in f.schema

\* ------------------------------------------------ scalar row-group streamers
\* The loop of read_required_i64_column / read_required_bool_column: done
\* values read so far, lpos levels consumed from the column chunk.
RECURSIVE ReadLoop(_, _, _, _)
ReadLoop(col, rows, done, lpos) ==
  IF done >= rows THEN done
  ELSE With(ReadBatch(col, lpos, done, rows - done), LAMBDA b :
         IF b.levels = 0 /\ b.values_read = 0 THEN done
         ELSE ReadLoop(col, rows, done + b.values_read, lpos + b.levels))

\* read_required_i64_column / read_required_bool_column; thr = "Short read".
ReadRequiredColumn(rg, name) ==
  With(ReadLoop(rg.col[name], rg.rows, 0, 0), LAMBDA done :
    [thr |-> done # rg.rows,
     out |-> Resize(SubSeq(rg.col[name].val, 1, done), rg.rows)])

\* The read_and_scatter calls of next_rg, flags i.. of the kind's list in
\* order; acc = [bufs, reads, thr].
RECURSIVE ReadAndScatter(_, _, _, _, _, _, _)
ReadAndScatter(cfg, f, rg, tag, ts_all, i, acc) ==
  LET flags == ScalarFlags(cfg.kind)
  IN IF acc.thr \/ i > Len(flags) THEN acc
     ELSE LET flag == flags[i]
              name == ColName(cfg.kind, flag)
              rd   == acc.reads \cup {<<tag[1], tag[2], flag>>}
          IN IF flag \notin cfg.sel
             THEN ReadAndScatter(cfg, f, rg, tag, ts_all, i + 1, acc)
             ELSE IF ~HasCol(f, name) THEN [acc EXCEPT !.thr = TRUE]
             ELSE With(ReadRequiredColumn(rg, name), LAMBDA tmp :
                    IF tmp.thr THEN [acc EXCEPT !.thr = TRUE, !.reads = rd]
                    ELSE ReadAndScatter(cfg, f, rg, tag, ts_all, i + 1,
                           [acc EXCEPT !.reads = rd,
                                       !.bufs[flag] =
                                          Scatter(tmp.out, ts_all,
                                                  [s |-> cfg.s, e |-> cfg.e])]))

\* FileStreamerTopCols::next_rg and FileStreamerTradeCols::next_rg on file f
\* (candidate number fi); st = [rg_idx, bufs, reads].  ok = the value
\* returned, thr = an exception left the call, src = the row group (1-based)
\* the batch was decoded from.
RECURSIVE ScalarNextRg(_, _, _, _)
ScalarNextRg(cfg, f, fi, st) ==
  IF st.rg_idx >= Len(f.rgs)
  THEN [ok |-> FALSE, thr |-> FALSE, rg_idx |-> st.rg_idx, bufs |-> st.bufs,
        reads |-> st.reads, src |-> 0]
  ELSE LET g   == st.rg_idx + 1
           rg  == f.rgs[g]
           w   == [s |-> cfg.s, e |-> cfg.e]
           rd  == st.reads \cup {<<fi, g, "ts">>}
           bad(bufs, reads) == [ok |-> FALSE, thr |-> TRUE, rg_idx |-> g, bufs |-> bufs,
                                reads |-> reads, src |-> g]
       IN IF ~HasCol(f, "ts") THEN bad(st.bufs, st.reads)
          ELSE With(ReadRequiredColumn(rg, "ts"), LAMBDA tsr :
                 IF tsr.thr THEN bad(st.bufs, rd)
                 ELSE LET ts_all == tsr.out
                          cnt == Cardinality({i \in 1..Len(ts_all) :
                                                InRange(ts_all[i], cfg.s, cfg.e)})
                          b1  == [b \in BufNames(cfg.kind) |->
                                    IF b = "ts" \/ b \in cfg.sel
                                    THEN Resize(st.bufs[b], cnt) ELSE <<>>]
                          b2  == [b1 EXCEPT !["ts"] = Scatter(ts_all, ts_all, w)]
                      IN IF cnt = 0
                         THEN ScalarNextRg(cfg, f, fi, [st EXCEPT !.rg_idx = g, !.reads = rd])
                         ELSE With(ReadAndScatter(cfg, f, rg, <<fi, g>>, ts_all, 1,
                                     [bufs |-> b2, reads |-> rd, thr |-> FALSE]),
                                LAMBDA a :
                                IF a.thr THEN bad(a.bufs, a.reads)
                                ELSE [ok |-> TRUE, thr |-> FALSE, rg_idx |-> g,
                                      bufs |-> a.bufs, reads |-> a.reads, src |-> g]))

\* -------------------------------------------------- depth row-group streamer
\* As DepthNeeded, with a cursor on every column of the schema.
DepthNeeded_All(sel) == <<"ts">> \o DepthScalarFlags \o DepthListFlags

\* The flags whose column FileStreamerDeltaCols::next_rg puts a cursor on, in
\* the order the cursors are constructed: ts always, then the selected ones.
DepthNeeded(sel) ==
  <<"ts">> \o SelectSeq(DepthScalarFlags, LAMBDA c : c \in sel)
           \o SelectSeq(DepthListFlags, LAMBDA c : c \in sel)

\* Cursor construction: "depth: missing ..." when find_col_idx fails,
\* "Column is not INT64" when the dynamic_cast fails.
CursorFails(f, rg, name) == ~HasCol(f, name) \/ rg.col[name].type # "INT64"

\* The first flag of need whose cursor cannot be constructed (0: none).
RECURSIVE FirstFailing(_, _, _, _)
FirstFailing(f, rg, need, i) ==
  IF i > Len(need) THEN 0
  ELSE IF CursorFails(f, rg, ColName("depth", need[i])) THEN i
  ELSE FirstFailing(f, rg, need, i + 1)

\* As DepthSide, with the assembler called for in-window rows only.
DepthSide_SkipOutside(st, sel, px, qty, in_range) ==
  IF st.thr \/ ~in_range THEN [st |-> st, added |-> 0]
  ELSE IF px \in sel /\ qty \in sel
       THEN With(AppendListPairs(st.cur[px], st.cur[qty],
                                 st.bufs[px], st.bufs[qty], in_range), LAMBDA a :
              [st |-> [st EXCEPT !.cur[px] = a.px, !.cur[qty] = a.qty,
                                 !.bufs[px] = a.opx, !.bufs[qty] = a.oqty,
                                 !.thr = a.thr],
               added |-> a.count])
       ELSE With(AppendListFromLeaf(st.cur[IF px \in sel THEN px ELSE qty],
                                    st.bufs[IF px \in sel THEN px ELSE qty], in_range),
              LAMBDA a :
              [st |-> [st EXCEPT !.cur[IF px \in sel THEN px ELSE qty] = a.c,
                                 !.bufs[IF px \in sel THEN px ELSE qty] = a.out,
                                 !.thr = a.thr],
               added |-> a.count])

\* One leg pair (ask or bid) of one row: lines 813-849.  st = [cur, bufs, thr].
DepthSide(st, sel, px, qty, in_range) ==
  IF st.thr THEN [st |-> st, added |-> 0]
  ELSE IF px \in sel /\ qty \in sel
       THEN With(AppendListPairs(st.cur[px], st.cur[qty],
                                 st.bufs[px], st.bufs[qty], in_range), LAMBDA a :
              [st |-> [st EXCEPT !.cur[px] = a.px, !.cur[qty] = a.qty,
                                 !.bufs[px] = a.opx, !.bufs[qty] = a.oqty,
                                 !.thr = a.thr],
               added |-> a.count])
       ELSE IF px \in sel
            THEN With(AppendListFromLeaf(st.cur[px], st.bufs[px], in_range), LAMBDA a :
                   [st |-> [st EXCEPT !.cur[px] = a.c, !.bufs[px] = a.out, !.thr = a.thr],
                    added |-> a.count])
            ELSE IF qty \in sel
                 THEN With(AppendListFromLeaf(st.cur[qty], st.bufs[qty], in_range),
                        LAMBDA a :
                        [st |-> [st EXCEPT !.cur[qty] = a.c, !.bufs[qty] = a.out,
                                           !.thr = a.thr],
                         added |-> a.count])
                 ELSE [st |-> st, added |-> 0]

\* take() on the cursor of a scalar flag, when the flag is selected.
DepthTake(st, sel, flag) ==
  IF st.thr \/ (flag # "ts" /\ flag \notin sel) THEN [st |-> st, e |-> NoEntry]
  ELSE With(Take(st.cur[flag]), LAMBDA t :
         [st |-> [st EXCEPT !.cur[flag] = t.c, !.thr = t.thr], e |-> t.e])

\* As PushOffset, pushing the row's element count instead of the running end.
PushOffset_Count(offs, added) == Append(offs, added)

\* off.push_back(off.back() + added)
PushOffset(offs, added) == Append(offs, offs[Len(offs)] + added)

\* The body of  for (r = 0; r < rows; ++r)  for rows r.. of the row group.
RECURSIVE DepthRows(_, _, _, _)
DepthRows(cfg, r, rows, st) ==
  IF st.thr \/ r >= rows THEN st
  ELSE
  With(DepthTake(st, cfg.sel, "ts"), LAMBDA t0 :
  With(DepthTake(t0.st, cfg.sel, "firstId"), LAMBDA t1 :
  With(DepthTake(t1.st, cfg.sel, "lastId"), LAMBDA t2 :
  With(DepthTake(t2.st, cfg.sel, "eventTime"), LAMBDA t3 :
  With(InRange(t0.e.value, cfg.s, cfg.e), LAMBDA in_range :
  With(DepthSide(t3.st, cfg.sel, "ask_px", "ask_qty", in_range), LAMBDA a :
  With(DepthSide(a.st, cfg.sel, "bid_px", "bid_qty", in_range), LAMBDA b :
    LET sel  == cfg.sel
        need_asks == "ask_px" \in sel \/ "ask_qty" \in sel
        need_bids == "bid_px" \in sel \/ "bid_qty" \in sel
        s4   == b.st
        push(bufs, flag, v) == IF flag \in sel THEN Append(bufs[flag], v) ELSE bufs[flag]
        off(bufs, name, need, added) ==
          IF need THEN PushOffset(bufs[name], added) ELSE bufs[name]
        s5   == IF s4.thr \/ ~in_range THEN s4
                ELSE [s4 EXCEPT !.bufs =
                        [n \in BufNames("depth") |->
                           CASE n = "ts"        -> Append(s4.bufs[n], t0.e.value)
                             [] n = "firstId"   -> push(s4.bufs, n, t1.e.value)
                             [] n = "lastId"    -> push(s4.bufs, n, t2.e.value)
                             [] n = "eventTime" -> push(s4.bufs, n, t3.e.value)
                             [] n = "ask_off"   -> off(s4.bufs, n, need_asks, a.added)
                             [] n = "bid_off"   -> off(s4.bufs, n, need_bids, b.added)
                             [] OTHER           -> s4.bufs[n]]]
    IN DepthRows(cfg, r + 1, rows, s5))))))))

\* FileStreamerDeltaCols::next_rg on file f (candidate number fi);
\* st = [rg_idx, bufs, reads].
RECURSIVE DepthNextRg(_, _, _, _)
DepthNextRg(cfg, f, fi, st) ==
  IF st.rg_idx >= Len(f.rgs)
  THEN [ok |-> FALSE, thr |-> FALSE, rg_idx |-> st.rg_idx, bufs |-> st.bufs,
        reads |-> st.reads, src |-> 0]
  ELSE
  With(st.rg_idx + 1, LAMBDA g :
  With(DepthNeeded(cfg.sel), LAMBDA need :
  With(FirstFailing(f, f.rgs[g], need, 1), LAMBDA ff :
    LET rg   == f.rgs[g]
        sel  == cfg.sel
        made == IF ff = 0 THEN Range(need) ELSE {need[i] : i \in 1..(ff - 1)}
        rd   == st.reads \cup {<<fi, g, c>> : c \in made}
        bad(bufs) == [ok |-> FALSE, thr |-> TRUE, rg_idx |-> g, bufs |-> bufs,
                      reads |-> rd, src |-> g]
    IN IF ff # 0 THEN bad(st.bufs)
       ELSE LET need_asks == "ask_px" \in sel \/ "ask_qty" \in sel
                need_bids == "bid_px" \in sel \/ "bid_qty" \in sel
                b0 == [n \in BufNames("depth") |->
                         IF (n = "ask_off" /\ need_asks) \/ (n = "bid_off" /\ need_bids)
                         THEN <<0>> ELSE <<>>]
                c0 == [c \in Range(need) |-> NewCursor(rg.col[ColName("depth", c)])]
            IN With(DepthRows(cfg, 0, rg.rows, [cur |-> c0, bufs |-> b0, thr |-> FALSE]),
                 LAMBDA s1 :
                 IF s1.thr THEN bad(s1.bufs)
                 ELSE IF s1.bufs["ts"] # <<>>
                      THEN [ok |-> TRUE, thr |-> FALSE, rg_idx |-> g, bufs |-> s1.bufs,
                            reads |-> rd, src |-> g]
                      ELSE DepthNextRg(cfg, f, fi,
                             [rg_idx |-> g, bufs |-> s1.bufs, reads |-> rd])))))

\* next_rg of the streamer of the reader's kind.
NextRg(cfg, f, fi, st) ==
  IF cfg.kind = "depth" THEN DepthNextRg(cfg, f, fi, st) ELSE ScalarNextRg(cfg, f, fi, st)

\* --------------------------------------------------------- file discovery
\* C++ integer division and remainder (truncation towards zero).
CDiv(a, b) == IF a >= 0 THEN a \div b ELSE -((-a) \div b)
CRem(a, b) == a - b * CDiv(a, b)

\* gmtime_r: the civil date (proleptic Gregorian, UTC) of day number z, day 0
\* being 1970-01-01.
CivilFromDays(z0) ==
  LET z   == z0 + 719468
      era == z \div 146097
      doe == z - era * 146097
      yoe == (doe - doe \div 1460 + doe \div 36524 - doe \div 146096) \div 365
      doy == doe - (365 * yoe + yoe \div 4 - yoe \div 100)
      mp  == (5 * doy + 2) \div 153
      d   == doy - (153 * mp + 2) \div 5 + 1
      m   == IF mp < 10 THEN mp + 3 ELSE mp - 9
      y   == yoe + era * 400 + (IF m <= 2 THEN 1 ELSE 0)
  IN [year |-> y, month |-> m, day |-> d]

\* timegm: the day number of a civil date.
DaysFromCivil(Y, M, D) ==
  LET y   == IF M <= 2 THEN Y - 1 ELSE Y
      era == y \div 400
      yoe == y - era * 400
      mp  == IF M > 2 THEN M - 3 ELSE M + 9
      doy == (153 * mp + 2) \div 5 + D - 1
      doe == yoe * 365 + yoe \div 4 - yoe \div 100 + doy
  IN era * 146097 + doe - 719468

DayNs == SecPerDay * NsPerSec

\* ymd_utc_from_ns
ymd_utc_from_ns(ns) ==
  LET s == CDiv(ns, NsPerSec)
  IN CivilFromDays(s \div SecPerDay)

\* floor_day_ns
floor_day_ns(ns) ==
  LET sec     == CDiv(ns, NsPerSec)
      day_sec == sec - CRem(sec, SecPerDay)
  IN day_sec * NsPerSec

\* ymd_utc_start_ns (timegm's -1 is taken for an error and mapped to 0)
ymd_utc_start_ns(Y, M, D) ==
  LET s == DaysFromCivil(Y, M, D) * SecPerDay
  IN IF s = -1 THEN 0 ELSE s * NsPerSec

\* to_lower on the market tokens the model passes.
to_lower(s) ==
  CASE s = "SPOT" -> "spot"
    [] s = "Futures" -> "futures"
    [] OTHER -> s

\* An absent std::optional<string>.
NoMarket == [has |-> FALSE, val |-> ""]
Some(s) == [has |-> TRUE, val |-> s]

\* norm_market
norm_market(m) ==
  IF ~m.has THEN NoMarket
  ELSE LET s0 == to_lower(m.val)
           s1 == IF s0 = "futures" THEN "fut" ELSE s0
           s2 == IF s1 = "future" THEN "fut" ELSE s1
       IN IF s2 = "spot" \/ s2 = "fut" THEN Some(s2) ELSE NoMarket

\* The path candidate_files_strict builds:
\* <root>/<kind>_<market>/<SYMB>/<Y>/<M>/bn_<kind>_<market>_<SYMB>_<Y>_<M>_<D>.parquet
\* as the sequence of its directory components and the fields of the file name.
PathOf(root, symb, base_type, mkt, ymd) ==
  [dir  |-> <<root, <<base_type, mkt>>, symb, ymd.year, ymd.month>>,
   file |-> <<"bn", base_type, mkt, symb, ymd.year, ymd.month, ymd.day, "parquet">>]

\* The while (cur <= end_floor) loop of candidate_files_strict for one market.
RECURSIVE DayLoop(_, _, _, _, _, _, _)
DayLoop(present, root, symb, base_type, mkt, cur, end_floor) ==
  IF cur > end_floor THEN <<>>
  ELSE LET ymd        == ymd_utc_from_ns(cur)
           file_start == ymd_utc_start_ns(ymd.year, ymd.month, ymd.day)
           file_end   == file_start + DayNs
           path       == PathOf(root, symb, base_type, mkt, ymd)
       IN (IF path \in present
           THEN <<[path |-> path, file_start_ns |-> file_start, file_end_ns |-> file_end]>>
           ELSE <<>>)
          \o DayLoop(present, root, symb, base_type, mkt, cur + DayNs, end_floor)

\* candidate_files_strict without line 405's reset of the day cursor: the
\* second market starts where the first one ended.
candidate_files_strict_NoReset(present, root, symb, base_type, market, start_ns, end_ns) ==
  IF start_ns >= end_ns THEN [out |-> <<>>, thr |-> FALSE]
  ELSE IF market.has /\ ~norm_market(market).has THEN [out |-> <<>>, thr |-> TRUE]
  ELSE [out |-> DayLoop(present, root, symb, base_type,
                        IF market.has THEN norm_market(market).val ELSE "fut",
                        floor_day_ns(start_ns), floor_day_ns(end_ns - 1)),
        thr |-> FALSE]

\* candidate_files_strict; present = the paths fs::exists is true of,
\* thr = the runtime_error "market must be 'fut' or 'spot'".
candidate_files_strict(present, root, symb, base_type, market, start_ns, end_ns) ==
  IF start_ns >= end_ns THEN [out |-> <<>>, thr |-> FALSE]
  ELSE IF market.has /\ ~norm_market(market).has THEN [out |-> <<>>, thr |-> TRUE]
  ELSE LET markets   == IF market.has THEN <<norm_market(market).val>> ELSE <<"fut", "spot">>
           cur       == floor_day_ns(start_ns)
           end_floor == floor_day_ns(end_ns - 1)
       IN [out |-> Concat([i \in DOMAIN markets |->
                             DayLoop(present, root, symb, base_type, markets[i],
                                     cur, end_floor)]),
           thr |-> FALSE]

\* ------------------------------------------------------------ batch readers
\* fs_ of a reader that holds no open file.
NoFs == [open |-> FALSE, rg_idx |-> 0]

\* What ParquetFileReader::OpenFile finds at the path of candidate fi.
FileAt(cfg, fi) == cfg.disk[cfg.files[fi].path]

\* fs::path(p).filename(): the fields of the file name (the empty string is
\* the empty sequence).
Filename(path) == path.file

\* The try block around make_unique<FileStreamer...>(path): an exception of
\* OpenFile is caught and logged ("WARN: open failed").
TryOpen(f) == [opened |-> f.ok, raised |-> FALSE]

\* As TryOpen with the catch clause missing: the exception leaves next().
TryNextRg_NoCatch(cfg, f, fi, st) ==
  With(NextRg(cfg, f, fi, st), LAMBDA res :
    [res |-> res, ok |-> res.ok /\ ~res.thr, warn |-> FALSE, raised |-> res.thr])

\* As TryNextRg, with the buffers of a row group that threw handed out as a
\* batch.
TryNextRg_Partial(cfg, f, fi, st) ==
  With(NextRg(cfg, f, fi, st), LAMBDA res :
    [res |-> res, ok |-> res.ok \/ res.thr, warn |-> res.thr, raised |-> FALSE])

\* The try block around fs_->next_rg(...): an exception is caught, logged
\* ("WARN: read failed") and turned into ok = false.
TryNextRg(cfg, f, fi, st) ==
  With(NextRg(cfg, f, fi, st), LAMBDA res :
    [res |-> res, ok |-> res.ok /\ ~res.thr, warn |-> res.thr, raised |-> FALSE])

\* As ViewOf, handing out the offset pointers whatever the selection.
ViewOf_OffsetsAlways(cfg, bufs, base) ==
  [ptr  |-> [b \in BufNames(cfg.kind) |->
               CASE b = "ask_off" -> TRUE
                 [] b = "bid_off" -> TRUE
                 [] OTHER         -> b \in cfg.sel],
   file |-> base,
   n    |-> Len(bufs["ts"])]

\* As ViewOf, with the file name left as the view was constructed.
ViewOf_NoFile(cfg, bufs, base) ==
  [ptr  |-> [b \in BufNames(cfg.kind) |->
               CASE b = "ask_off" -> "ask_px" \in cfg.sel \/ "ask_qty" \in cfg.sel
                 [] b = "bid_off" -> "bid_px" \in cfg.sel \/ "bid_qty" \in cfg.sel
                 [] OTHER         -> b \in cfg.sel],
   file |-> <<>>,
   n    |-> Len(bufs["ts"])]

\* The view fields next() assigns before it returns true: a pointer is set
\* (TRUE) or null (FALSE); file and n.
ViewOf(cfg, bufs, base) ==
  [ptr  |-> [b \in BufNames(cfg.kind) |->
               CASE b = "ask_off" -> "ask_px" \in cfg.sel \/ "ask_qty" \in cfg.sel
                 [] b = "bid_off" -> "bid_px" \in cfg.sel \/ "bid_qty" \in cfg.sel
                 [] OTHER         -> b \in cfg.sel],
   file |-> base,
   n    |-> Len(bufs["ts"])]

\* TopBatchReader / TradeBatchReader / DeltaBatchReader ::Impl::next, the
\* whole while(true) loop.  r = the reader's fields [file_idx_, fs_, bufs,
\* cur_file_base_] with the call's trace [reads, warns, exh, opens, src].
RECURSIVE ReaderNext(_, _)
ReaderNext(cfg, r) ==
  LET fi == r.file_idx_ + 1
  IN IF ~r.fs_.open /\ r.file_idx_ >= Len(cfg.files)
     THEN [r |-> r, ret |-> FALSE, raised |-> FALSE]
     ELSE IF ~r.fs_.open /\ TryOpen(FileAt(cfg, fi)).raised
     THEN [r |-> r, ret |-> FALSE, raised |-> TRUE]
     ELSE IF ~r.fs_.open /\ ~TryOpen(FileAt(cfg, fi)).opened
     THEN ReaderNext(cfg, [r EXCEPT !.file_idx_ = r.file_idx_ + 1,
                                    !.warns = Append(r.warns, <<"open failed", fi>>)])
     ELSE
     With(IF r.fs_.open THEN r
          ELSE [r EXCEPT !.fs_ = [open |-> TRUE, rg_idx |-> 0],
                         !.cur_file_base_ = Filename(cfg.files[fi].path),
                         !.opens = Append(r.opens, fi)], LAMBDA r1 :
     With(TryNextRg(cfg, FileAt(cfg, fi), fi,
                    [rg_idx |-> r1.fs_.rg_idx, bufs |-> r1.bufs, reads |-> r1.reads]),
          LAMBDA t :
       LET r2 == [r1 EXCEPT !.fs_.rg_idx = t.res.rg_idx, !.bufs = t.res.bufs,
                            !.reads = t.res.reads]
       IN IF t.raised THEN [r |-> r2, ret |-> FALSE, raised |-> TRUE]
          ELSE IF ~t.ok
          THEN ReaderNext(cfg,
                 [r2 EXCEPT !.fs_ = NoFs,
                            !.file_idx_ = r.file_idx_ + 1,
                            !.warns = IF t.warn
                                      THEN Append(r.warns, <<"read failed", fi>>)
                                      ELSE r.warns,
                            !.exh = IF t.warn THEN r.exh
                                    ELSE r.exh \cup {<<fi, t.res.rg_idx>>}])
          ELSE IF r2.bufs["ts"] = <<>> THEN ReaderNext(cfg, r2)
          ELSE [r |-> [r2 EXCEPT !.src = <<fi, t.res.src>>], ret |-> TRUE,
                raised |-> FALSE]))

\* --------------------------------------------------- files on disk (inputs)
\* A required (non-nested) column chunk holding vals.
ReqCol(type, vals) ==
  [type |-> type, max_def |-> 0, max_rep |-> 0, pages |-> {},
   def |-> [i \in 1..Len(vals) |-> 0], rep |-> [i \in 1..Len(vals) |-> 0], val |-> vals]

\* A truncated column chunk: the last value (and its level) is missing.
DropLast(col) ==
  [col EXCEPT !.def = SubSeq(col.def, 1, Len(col.def) - 1),
              !.rep = SubSeq(col.rep, 1, Len(col.rep) - 1),
              !.val = SubSeq(col.val, 1, Len(col.val) - 1)]

\* A corrupted nested chunk: the levels are whole, the last value is missing.
DropLastValue(col) == [col EXCEPT !.val = SubSeq(col.val, 1, Len(col.val) - 1)]

\* Position of x in the sequence q.
IndexOf(q, x) == CHOOSE i \in 1..Len(q) : q[i] = x

\* The value stored in scalar column flag of the row with identity id.
Val(k, flag, id) ==
  IF ColType(k, flag) = "BOOLEAN" THEN id % 2
  ELSE 100 * id + IndexOf(IF k = "depth" THEN DepthScalarFlags ELSE ScalarFlags(k), flag)

\* The columns the files of a kind are written with (top files carry no
\* sampled min_/max_ columns).
SchemaFlags(k) ==
  CASE k = "top"   -> {"ask_px", "ask_qty", "bid_px", "bid_qty", "valu"}
    [] k = "trade" -> Range(TradeFlags)
    [] k = "depth" -> Range(DepthScalarFlags) \cup Range(DepthListFlags)

Schema(k) == {"ts"} \cup {ColName(k, c) : c \in SchemaFlags(k)}

\* Dremel levels of one list leaf (max definition level 2, max repetition
\* level 1) for the written list sizes: -1 = list absent, 0 = empty list.
RECURSIVE ListDef(_)
ListDef(sizes) ==
  IF sizes = <<>> THEN <<>>
  ELSE (CASE Head(sizes) = -1 -> <<0>>
          [] Head(sizes) = 0  -> <<1>>
          [] OTHER            -> [j \in 1..Head(sizes) |-> 2]) \o ListDef(Tail(sizes))

RECURSIVE ListRep(_)
ListRep(sizes) ==
  IF sizes = <<>> THEN <<>>
  ELSE (IF Head(sizes) <= 0 THEN <<0>>
        ELSE [j \in 1..Head(sizes) |-> IF j = 1 THEN 0 ELSE 1]) \o ListRep(Tail(sizes))

\* Element j of leg number leg of the row with identity id.
Elem(leg, id, j) == 100 * id + 10 * leg + j

RECURSIVE ListVals(_, _, _)
ListVals(sizes, leg, id) ==
  IF sizes = <<>> THEN <<>>
  ELSE (IF Head(sizes) <= 0 THEN <<>>
        ELSE [j \in 1..Head(sizes) |-> Elem(leg, id, j)]) \o ListVals(Tail(sizes), leg, id + 1)

ListCol(sizes, leg, id) ==
  [type |-> "INT64", max_def |-> 2, max_rep |-> 1, pages |-> {},
   def |-> ListDef(sizes), rep |-> ListRep(sizes), val |-> ListVals(sizes, leg, id)]

\* A row group of a top or trade file: rows with timestamps tsq, identities
\* id0+1, id0+2, ...
ScalarRG(k, id0, tsq) ==
  [rows |-> Len(tsq), ts |-> tsq, ask |-> <<>>, bid |-> <<>>, damaged |-> {},
   col  |-> [name \in Schema(k) |->
               IF name = "ts" THEN ReqCol("INT64", tsq)
               ELSE ReqCol(ColType(k, name), [i \in 1..Len(tsq) |-> Val(k, name, id0 + i)])]]

\* A row group of a depth file: timestamps tsq, ask / bid list sizes per row.
DepthRG(id0, tsq, ask, bid) ==
  [rows |-> Len(tsq), ts |-> tsq, ask |-> ask, bid |-> bid, damaged |-> {},
   col  |-> [name \in Schema("depth") |->
               CASE name = "ts" -> ReqCol("INT64", tsq)
                 [] name = "ask.list.element.px"  -> ListCol(ask, 1, id0 + 1)
                 [] name = "ask.list.element.qty" -> ListCol(ask, 2, id0 + 1)
                 [] name = "bid.list.element.px"  -> ListCol(bid, 3, id0 + 1)
                 [] name = "bid.list.element.qty" -> ListCol(bid, 4, id0 + 1)
                 [] OTHER -> ReqCol("INT64",
                               [i \in 1..Len(tsq) |-> Val("depth", name, id0 + i)])]]

\* The row group rg with the chunk of column name truncated.
Truncated(rg, name) ==
  [rg EXCEPT !.col[name] = DropLast(rg.col[name]), !.damaged = rg.damaged \cup {name}]

\* The row group rg with the last value of column name lost.
ValueLost(rg, name) ==
  [rg EXCEPT !.col[name] = DropLastValue(rg.col[name]), !.damaged = rg.damaged \cup {name}]

File(k, rgs) == [ok |-> TRUE, schema |-> Schema(k), rgs |-> rgs]

\* A file OpenFile throws on (unreadable footer).
Unreadable == [ok |-> FALSE, schema |-> {}, rgs |-> <<>>]

TopFiles ==
  <<File("top", <<ScalarRG("top", 0, <<1, 2, 3>>)>>),
    File("top",
         <<ScalarRG("top", 10, <<0, 1>>), ScalarRG("top", 20, <<3, 2>>)>>),
    File("top",
         <<ScalarRG("top", 30, <<2, 3>>),
           Truncated(ScalarRG("top", 40, <<1, 2>>), "bid_px")>>),
    Unreadable,
    File("top",
         <<Truncated(ScalarRG("top", 50, <<3, 1>>), "ts")>>),
    [File("top", <<ScalarRG("top", 60, <<1, 4>>)>>)
       EXCEPT !.schema = Schema("top") \ {"valu"}] >>

TradeFiles ==
  <<File("trade",
         <<ScalarRG("trade", 0, <<1, 2, 3>>)>>),
    File("trade",
         <<ScalarRG("trade", 10, <<0>>), ScalarRG("trade", 20, <<2, 4>>)>>),
    File("trade",
         <<ScalarRG("trade", 30, <<3, 2>>),
           Truncated(ScalarRG("trade", 40, <<1, 2>>), "isMarket")>>),
    Unreadable,
    [File("trade", <<ScalarRG("trade", 50, <<1, 3>>)>>)
       EXCEPT !.schema = Schema("trade") \ {"ts"}] >>

DepthFiles ==
  <<File("depth",
         <<DepthRG(0, <<1, 2, 3>>, <<2, 0, 1>>, <<1, -1, 2>>)>>),
    File("depth",
         <<DepthRG(10, <<0, 1>>, <<1, 1>>, <<0, 2>>),
           DepthRG(20, <<3, 2>>, <<-1, 3>>, <<1, 1>>)>>),
    File("depth",
         <<DepthRG(30, <<2, 3>>, <<1, 0>>, <<2, 1>>),
           ValueLost(DepthRG(40, <<1, 2>>, <<1, 2>>, <<0, 1>>), "ask.list.element.px")>>),
    Unreadable,
    File("depth",
         <<Truncated(DepthRG(50, <<3, 1>>, <<1, 1>>, <<1, 0>>), "ts")>>),
    [File("depth",
          <<DepthRG(60, <<1, 4>>, <<0, 2>>, <<1, 1>>)>>)
       EXCEPT !.schema = Schema("depth") \ {"bid.list.element.qty"}] >>

FilesOf(k) ==
  CASE k = "top" -> TopFiles [] k = "trade" -> TradeFiles [] k = "depth" -> DepthFiles

\* The i-th file of kind k lies at the layout path of day i of September 2025.
CatalogueDay(i) == [year |-> 2025, month |-> 9, day |-> i]
CataloguePath(k, i) == PathOf("/data", "S", k, "spot", CatalogueDay(i))

\* The disk a reader of kind k works on: path -> file.
DiskOf(k) ==
  [p \in {CataloguePath(k, i) : i \in DOMAIN FilesOf(k)} |->
     FilesOf(k)[CHOOSE i \in DOMAIN FilesOf(k) : CataloguePath(k, i) = p]]

\* struct Candidate
Candidate(path, ymd) ==
  [path |-> path,
   file_start_ns |-> ymd_utc_start_ns(ymd.year, ymd.month, ymd.day),
   file_end_ns   |-> ymd_utc_start_ns(ymd.year, ymd.month, ymd.day) + DayNs]

\* Candidate lists: discovery never yields the same path twice.
CandidateLists(k) ==
  {q \in UNION {[1..n -> {Candidate(CataloguePath(k, i), CatalogueDay(i)) :
                             i \in DOMAIN FilesOf(k)}] : n \in 0..MaxFiles} :
     \A i, j \in DOMAIN q : i # j => q[i] # q[j]}

TopSels ==
  { {"ts", "ask_px", "ask_qty", "bid_px", "bid_qty", "valu"},
    {"ts"},
    {"ask_px", "valu"} }

TradeSels ==
  { {"ts"} \cup Range(TradeFlags),
    {"ts", "isMarket"},
    {"px", "qty"} }

DepthSels ==
  { {"ts"} \cup Range(DepthScalarFlags) \cup Range(DepthListFlags),
    {"ts"} \cup Range(DepthScalarFlags),
    {"ts", "ask_px"},
    {"lastId", "ask_qty", "bid_px", "bid_qty"} }

SelsOf(k) ==
  CASE k = "top" -> TopSels [] k = "trade" -> TradeSels [] k = "depth" -> DepthSels

Kinds == {"top", "trade", "depth"}

\* ------------------------------------------------------------------- state
VARIABLES
  disk,            \* the files on disk: path -> file
  query,           \* the arguments of the last get_*_cols call
  cands,           \* what its candidate_files_strict returned
  threw,           \* the call raised "market must be 'fut' or 'spot'"
  kind,            \* which of the three batch readers this is
  files_,          \* Impl::files_   (candidate list, with each file's content)
  start_ns_,       \* Impl::start_ns_
  end_ns_,         \* Impl::end_ns_
  sel_,            \* Impl::sel_
  file_idx_,       \* Impl::file_idx_
  fs_,             \* Impl::fs_      (the open file streamer and its rg_idx)
  bufs,            \* Impl's batch buffers
  cur_file_base_,  \* Impl::cur_file_base_
  out,             \* the caller's view object
  ret,             \* what the last next() returned: "none", "true", "false"
  raised,          \* an exception left next()
  reads,           \* <<file, row group, flag>> of every column read issued
  warns,           \* the WARN lines logged
  exh,             \* <<file, rg_idx>> at every false of next_rg
  opens,           \* the files opened, in order
  delivered,       \* the batches delivered, in order
  g_debug,         \* static bool g_debug
  g_prefetch,      \* static bool g_prefetch
  hints,           \* the [debug] lines written and the readahead hints issued
  peer,            \* a second reader obtained from the same ShardedDB
  aux              \* the stand-alone utilities: binary operations, converter, logger

vars == <<disk, query, cands, threw, kind, files_, start_ns_, end_ns_, sel_, file_idx_, fs_, bufs,
          cur_file_base_, out, ret, raised, reads, warns, exh, opens, delivered,
          g_debug, g_prefetch, hints, peer, aux>>

\* The variables of the parquet reader library.
lib == <<disk, query, cands, threw, kind, files_, start_ns_, end_ns_, sel_, file_idx_, fs_, bufs,
         cur_file_base_, out, ret, raised, reads, warns, exh, opens, delivered,
         g_debug, g_prefetch, hints, peer>>

\* The process-wide toggles with what they emit, and the second reader.
env == <<g_debug, g_prefetch, hints, peer, aux>>

\* No second reader has been asked for.
NoPeer == [made |-> FALSE]

\* None of the stand-alone utilities is running.
NoAux == [prog |-> "none"]

\* The static initialisers of the toggles; nothing emitted, one reader.
EnvInit ==
  /\ g_debug = FALSE
  /\ g_prefetch = FALSE
  /\ hints = <<>>
  /\ peer = NoPeer

Cfg ==
  [kind |-> kind, files |-> files_, s |-> start_ns_, e |-> end_ns_, sel |-> sel_,
   disk |-> disk]

\* No get_*_cols call made yet.
NoQuery == [kind |-> "", market |-> NoMarket, s |-> 0, e |-> 0]

\* A default-constructed view: null pointers, n = 0.
NullView(k) == [ptr |-> [b \in BufNames(k) |-> FALSE], file |-> <<>>, n |-> 0]

\* The state after get_top_cols / get_trade_cols / get_depth_cols returned a
\* reader: candidate_files_strict yields no candidate when start >= end.
Init ==
  /\ kind \in Kinds
  /\ disk = DiskOf(kind)
  /\ query = NoQuery
  /\ cands = <<>>
  /\ threw = FALSE
  /\ start_ns_ \in 0..MaxTs
  /\ end_ns_ \in 0..MaxTs
  /\ sel_ \in SelsOf(kind)
  /\ files_ \in CandidateLists(kind)
  /\ start_ns_ >= end_ns_ => files_ = <<>>
  /\ file_idx_ = 0
  /\ fs_ = NoFs
  /\ bufs = EmptyBufs(kind)
  /\ cur_file_base_ = <<>>
  /\ out = NullView(kind)
  /\ ret = "none"
  /\ raised = FALSE
  /\ reads = {}
  /\ warns = <<>>
  /\ exh = {}
  /\ opens = <<>>
  /\ delivered = <<>>
  /\ EnvInit
  /\ aux = NoAux

\* A reader constructed over the fields of the reader that exists already.
NewReader_Shared(k) ==
  [file_idx_ |-> file_idx_, fs_ |-> fs_, bufs |-> bufs, cur_file_base_ |-> cur_file_base_,
   reads |-> {}, warns |-> <<>>, exh |-> {}, opens |-> <<>>, src |-> <<0, 0>>]

\* The fields of a freshly constructed reader, with an empty trace.
NewReader(k) ==
  [file_idx_ |-> 0, fs_ |-> NoFs, bufs |-> EmptyBufs(k), cur_file_base_ |-> <<>>,
   reads |-> {}, warns |-> <<>>, exh |-> {}, opens |-> <<>>, src |-> <<0, 0>>]

\* As Returned, with the view assigned before a return of false as well.
Returned_ViewAlways(res) ==
  LET v == ViewOf(Cfg, res.r.bufs, res.r.cur_file_base_)
  IN /\ file_idx_' = res.r.file_idx_
     /\ fs_' = res.r.fs_
     /\ bufs' = res.r.bufs
     /\ cur_file_base_' = res.r.cur_file_base_
     /\ reads' = res.r.reads
     /\ warns' = res.r.warns
     /\ exh' = res.r.exh
     /\ opens' = res.r.opens
     /\ raised' = res.raised
     /\ ret' = IF res.raised THEN ret ELSE IF res.ret THEN "true" ELSE "false"
     /\ out' = v
     /\ delivered' = IF res.ret
                     THEN Append(delivered, [file |-> res.r.src[1], rg |-> res.r.src[2],
                                              view |-> v, data |-> res.r.bufs])
                     ELSE delivered

\* What a call of next(out) that ended as res leaves behind: the reader's
\* fields, the view (assigned only before a return of true) and the trace.
Returned(res) ==
  LET v == ViewOf(Cfg, res.r.bufs, res.r.cur_file_base_)
  IN /\ file_idx_' = res.r.file_idx_
     /\ fs_' = res.r.fs_
     /\ bufs' = res.r.bufs
     /\ cur_file_base_' = res.r.cur_file_base_
     /\ reads' = res.r.reads
     /\ warns' = res.r.warns
     /\ exh' = res.r.exh
     /\ opens' = res.r.opens
     /\ raised' = res.raised
     /\ ret' = IF res.raised THEN ret ELSE IF res.ret THEN "true" ELSE "false"
     /\ out' = IF res.ret THEN v ELSE out
     /\ delivered' = IF res.ret
                     THEN Append(delivered, [file |-> res.r.src[1], rg |-> res.r.src[2],
                                              view |-> v, data |-> res.r.bufs])
                     ELSE delivered

\* One call of next(out) on the reader.
CallNext ==
  /\ ~raised
  /\ Returned(ReaderNext(Cfg, [file_idx_ |-> file_idx_, fs_ |-> fs_, bufs |-> bufs,
                               cur_file_base_ |-> cur_file_base_, reads |-> reads,
                               warns |-> warns, exh |-> exh, opens |-> opens,
                               src |-> <<0, 0>>]))
  /\ UNCHANGED <<disk, query, cands, threw, kind, files_, start_ns_, end_ns_, sel_>>
  /\ UNCHANGED env

\* TopBatchReader::next, TradeBatchReader::next, DeltaBatchReader::next
TopNext == kind = "top" /\ CallNext
TradeNext == kind = "trade" /\ CallNext
DepthNext == kind = "depth" /\ CallNext

Next == TopNext \/ TradeNext \/ DepthNext

Spec == Init /\ [][Next]_vars

\* ------------------------------------------- next() one iteration at a time
\* The file index that does not move.
NextFile_Stuck(idx) == idx

\* The file index that passes over a candidate.
NextFile_Skip(idx) == idx + 2

\* ++file_idx_
NextFile(idx) == idx + 1

\* The row groups of f that one iteration of next_rg's while (true) can
\* reach from row-group index rg_idx: the one at rg_idx, if there is one.
UpTo(f, rg_idx) ==
  IF rg_idx < Len(f.rgs) THEN [f EXCEPT !.rgs = SubSeq(f.rgs, 1, rg_idx + 1)] ELSE f

\* One iteration of the while (true) of Impl::next, together with the one
\* iteration of the while (true) of next_rg it is in: done = the call has
\* returned (ret) or an exception has left it (raised); otherwise the loop
\* goes round again from r.
ReaderStep(cfg, r) ==
  LET fi == r.file_idx_ + 1
  IN IF ~r.fs_.open /\ r.file_idx_ >= Len(cfg.files)
     THEN [r |-> r, done |-> TRUE, ret |-> FALSE, raised |-> FALSE]
     ELSE IF ~r.fs_.open /\ TryOpen(FileAt(cfg, fi)).raised
     THEN [r |-> r, done |-> TRUE, ret |-> FALSE, raised |-> TRUE]
     ELSE IF ~r.fs_.open /\ ~TryOpen(FileAt(cfg, fi)).opened
     THEN [r |-> [r EXCEPT !.file_idx_ = NextFile(r.file_idx_),
                           !.warns = Append(r.warns, <<"open failed", fi>>)],
           done |-> FALSE, ret |-> FALSE, raised |-> FALSE]
     ELSE
     With(IF r.fs_.open THEN r
          ELSE [r EXCEPT !.fs_ = [open |-> TRUE, rg_idx |-> 0],
                         !.cur_file_base_ = Filename(cfg.files[fi].path),
                         !.opens = Append(r.opens, fi)], LAMBDA r1 :
     With(TryNextRg(cfg, UpTo(FileAt(cfg, fi), r1.fs_.rg_idx), fi,
                    [rg_idx |-> r1.fs_.rg_idx, bufs |-> r1.bufs, reads |-> r1.reads]),
          LAMBDA t :
       LET r2 == [r1 EXCEPT !.fs_.rg_idx = t.res.rg_idx, !.bufs = t.res.bufs,
                            !.reads = t.res.reads]
           at_end == r1.fs_.rg_idx >= Len(FileAt(cfg, fi).rgs)
       IN IF t.raised THEN [r |-> r2, done |-> TRUE, ret |-> FALSE, raised |-> TRUE]
          ELSE IF ~t.ok /\ (t.warn \/ at_end)
          THEN [r |-> [r2 EXCEPT !.fs_ = NoFs,
                                 !.file_idx_ = NextFile(r.file_idx_),
                                 !.warns = IF t.warn
                                           THEN Append(r.warns, <<"read failed", fi>>)
                                           ELSE r.warns,
                                 !.exh = IF t.warn THEN r.exh
                                         ELSE r.exh \cup {<<fi, t.res.rg_idx>>}],
                done |-> FALSE, ret |-> FALSE, raised |-> FALSE]
          ELSE IF ~t.ok \/ r2.bufs["ts"] = <<>>
          THEN [r |-> r2, done |-> FALSE, ret |-> FALSE, raised |-> FALSE]
          ELSE [r |-> [r2 EXCEPT !.src = <<fi, t.res.src>>], done |-> TRUE, ret |-> TRUE,
                raised |-> FALSE]))

\* The reader's fields and the trace, as ReaderNext and ReaderStep take them.
Reader ==
  [file_idx_ |-> file_idx_, fs_ |-> fs_, bufs |-> bufs,
   cur_file_base_ |-> cur_file_base_, reads |-> reads,
   warns |-> warns, exh |-> exh, opens |-> opens, src |-> <<0, 0>>]

\* What an iteration that ends in continue leaves behind.
Continued(r) ==
  /\ file_idx_' = r.file_idx_
  /\ fs_' = r.fs_
  /\ bufs' = r.bufs
  /\ cur_file_base_' = r.cur_file_base_
  /\ reads' = r.reads
  /\ warns' = r.warns
  /\ exh' = r.exh
  /\ opens' = r.opens
  /\ UNCHANGED <<ret, raised, out, delivered>>

\* The caller enters next(out); "running" = the call has not returned.
BeginNext ==
  /\ ret # "running"
  /\ ~raised
  /\ ret' = "running"
  /\ UNCHANGED <<disk, query, cands, threw, kind, files_, start_ns_, end_ns_, sel_,
                 file_idx_, fs_, bufs, cur_file_base_, out, raised, reads, warns, exh,
                 opens, delivered>>
  /\ UNCHANGED env

\* The iteration is about to open a file that is not the last candidate:
\* if (file_idx_ + 1 < files_.size()) prefetch_path(files_[file_idx_ + 1].path)
PrefetchDue == ~fs_.open /\ file_idx_ + 1 < Len(files_)

\* prefetch_path: with g_prefetch on, the readahead hint for the path.
prefetch_path(on, path) == IF on THEN << <<"readahead", path>> >> ELSE <<>>

\* A prefetch that takes the file it hints at away from the scan.
AfterPrefetch_Consumes(on, r) ==
  IF on THEN [r EXCEPT !.file_idx_ = r.file_idx_ + 1] ELSE r

\* The reader's fields after prefetch_path: it works on a descriptor of its
\* own, closes it, and touches no field of the reader.
AfterPrefetch(on, r) == r

\* The calling thread runs one iteration of the loop.
Iterate ==
  /\ ret = "running"
  /\ With(ReaderStep(Cfg, IF PrefetchDue THEN AfterPrefetch(g_prefetch, Reader) ELSE Reader),
          LAMBDA res : IF res.done THEN Returned(res) ELSE Continued(res.r))
  /\ hints' = IF PrefetchDue
              THEN hints \o prefetch_path(g_prefetch, files_[file_idx_ + 2].path)
              ELSE hints
  /\ UNCHANGED <<disk, query, cands, threw, kind, files_, start_ns_, end_ns_, sel_>>
  /\ UNCHANGED <<g_debug, g_prefetch, peer, aux>>

NextStep == BeginNext \/ Iterate

\* next() blocks its caller: the thread in the call keeps running it.  This
\* is weak fairness of Iterate, []<>~ENABLED <<Iterate>>_vars \/
\* []<><<Iterate>>_vars, with ENABLED <<Iterate>>_vars written as the guard it
\* amounts to: an iteration is possible exactly while the call is running.
CallerRuns == []<>(ret # "running") \/ []<><<Iterate>>_vars

SpecStep == Init /\ [][NextStep]_vars /\ CallerRuns

\* ------------------------------------------ two readers of one ShardedDB
\* The second reader's configuration.
PeerCfg ==
  [kind |-> kind, files |-> peer.files, s |-> peer.s, e |-> peer.e, sel |-> peer.sel,
   disk |-> disk]

\* Discovery lists a market's candidates by ascending day.
AscendingDays(q) == \A i, j \in DOMAIN q : i < j => q[i].file_start_ns < q[j].file_start_ns

\* The first reader, obtained over a non-empty candidate list; the window
\* starts at 0 and ends at the last or the last but one timestamp.
InitPair ==
  /\ Init
  /\ files_ # <<>>
  /\ AscendingDays(files_)
  /\ start_ns_ = 0
  /\ end_ns_ >= MaxTs - 1

\* A second get_*_cols call on the same ShardedDB with the same symbol,
\* market and window, and any selection: discovery finds the same files, and
\* make_unique<Impl> constructs a reader of its own.
get_peer ==
  /\ ~peer.made
  /\ \E sel \in SelsOf(kind) :
       peer' = [made |-> TRUE, files |-> files_, s |-> start_ns_, e |-> end_ns_,
                sel |-> sel, r |-> NewReader(kind), out |-> NullView(kind),
                ret |-> "none", delivered |-> <<>>]
  /\ UNCHANGED <<disk, query, cands, threw, kind, files_, start_ns_, end_ns_, sel_,
                 file_idx_, fs_, bufs, cur_file_base_, out, ret, raised, reads, warns,
                 exh, opens, delivered, g_debug, g_prefetch, hints, aux>>

\* What a call of next(out) on the second reader that ended as res leaves.
PeerReturned(res) ==
  LET v == ViewOf(PeerCfg, res.r.bufs, res.r.cur_file_base_)
  IN [peer EXCEPT !.r = res.r,
                  !.ret = IF res.raised THEN peer.ret
                          ELSE IF res.ret THEN "true" ELSE "false",
                  !.out = IF res.ret THEN v ELSE peer.out,
                  !.delivered = IF res.ret
                                THEN Append(peer.delivered,
                                            [file |-> res.r.src[1], rg |-> res.r.src[2],
                                             view |-> v, data |-> res.r.bufs])
                                ELSE peer.delivered]

\* One call of next(out) on the second reader.
peer_next ==
  /\ peer.made
  /\ peer' = With(ReaderNext(PeerCfg, [peer.r EXCEPT !.src = <<0, 0>>]), PeerReturned)
  /\ UNCHANGED <<disk, query, cands, threw, kind, files_, start_ns_, end_ns_, sel_,
                 file_idx_, fs_, bufs, cur_file_base_, out, ret, raised, reads, warns,
                 exh, opens, delivered, g_debug, g_prefetch, hints, aux>>

\* One call of next(out) on the first reader.
first_next == kind \in Kinds /\ CallNext

NextPair == first_next \/ get_peer \/ peer_next

SpecPair == InitPair /\ [][NextPair]_vars

\* ------------------------------------------------- discovery as a machine
\* ShardedDB's root_ and the one symbol the model asks for.
Root == "/data"
Symb == "S"

\* The default-constructed TopSelect / TradeSelect / DeltaSelect.
DefaultSel(k) ==
  CASE k = "top"   -> {"ts", "ask_px", "ask_qty", "bid_px", "bid_qty", "valu"}
    [] k = "trade" -> {"ts"} \cup Range(TradeFlags)
    [] k = "depth" -> {"ts"} \cup Range(DepthScalarFlags) \cup Range(DepthListFlags)

\* The day numbers (day 0 = 1970-01-01) the disks hold files around: the two
\* days before the epoch, and 1970-01-30, two days before a month's end.
BaseDays == {0 - 2, 29}
DayOffsets == 0..(MaxSpanDays + 1)

\* Which of the days near a base day have a file, per market.
Patterns ==
  { {}, DayOffsets, {o \in DayOffsets : o % 2 = 0}, {o \in DayOffsets : o % 2 = 1} }

\* The paths of a disk holding, for every kind, the days picked by fut_pat in
\* the fut tree and by spot_pat in the spot tree.
DiscPaths(fut_pat, spot_pat) ==
  {PathOf(Root, Symb, k, "fut", CivilFromDays(b + o)) :
     k \in Kinds, b \in BaseDays, o \in fut_pat}
  \cup
  {PathOf(Root, Symb, k, "spot", CivilFromDays(b + o)) :
     k \in Kinds, b \in BaseDays, o \in spot_pat}

\* Each such file is a valid file of its kind without row groups.
DiscDisks ==
  {[p \in DiscPaths(fp, sp) |-> File(p.file[2], <<>>)] : fp \in Patterns, sp \in Patterns}

\* The market arguments passed: absent, a canonical token, an alias in mixed
\* case, and a token that is not accepted.
MarketArgs == {NoMarket, Some("spot"), Some("Futures"), Some("swap")}

\* The windows asked for: s within two days of a base day's midnight, then
\* either e after s by at most MaxSpanDays days, or e <= s.
Windows ==
  {[s |-> b * DayNs + x, e |-> b * DayNs + x + len] :
     b \in BaseDays, x \in 0..(2 * DayNs - 1), len \in (0 - 1)..(MaxSpanDays * DayNs)}

\* A ShardedDB that has not been asked for a reader.
NoReaderYet ==
  /\ query = NoQuery
  /\ cands = <<>>
  /\ threw = FALSE
  /\ kind = "top"
  /\ start_ns_ = 0
  /\ end_ns_ = 0
  /\ sel_ = DefaultSel("top")
  /\ files_ = <<>>
  /\ file_idx_ = 0
  /\ fs_ = NoFs
  /\ bufs = EmptyBufs("top")
  /\ cur_file_base_ = <<>>
  /\ out = NullView("top")
  /\ ret = "none"
  /\ raised = FALSE
  /\ reads = {}
  /\ warns = <<>>
  /\ exh = {}
  /\ opens = <<>>
  /\ delivered = <<>>
  /\ EnvInit

InitDisc == disk \in DiscDisks /\ NoReaderYet /\ aux = NoAux

\* ShardedDB::Impl::get_top / get_trade / get_depth: discovery, then the
\* construction of the reader over the candidates; a throw of discovery
\* leaves no reader behind.  The calls are const members that leave the
\* ShardedDB as it was, so every call starts from the same state: the model
\* follows one call per behaviour.
Called(k, market, w) ==
  LET res == candidate_files_strict(DOMAIN disk, Root, Symb, k, market, w.s, w.e)
  IN /\ query' = [kind |-> k, market |-> market, s |-> w.s, e |-> w.e]
     /\ threw' = res.thr
     /\ cands' = res.out
     /\ IF res.thr
        THEN UNCHANGED <<kind, files_, start_ns_, end_ns_, sel_, file_idx_, fs_, bufs,
                         cur_file_base_, out>>
        ELSE /\ kind' = k
             /\ files_' = res.out
             /\ start_ns_' = w.s
             /\ end_ns_' = w.e
             /\ sel_' = DefaultSel(k)
             /\ file_idx_' = 0
             /\ fs_' = NoFs
             /\ bufs' = EmptyBufs(k)
             /\ cur_file_base_' = <<>>
             /\ out' = NullView(k)
     /\ UNCHANGED <<disk, ret, raised, reads, warns, exh, opens, delivered>>

\* A call with any of the market arguments and windows, the toggles off.
GetCols(k) ==
  \E market \in MarketArgs, w \in Windows : Called(k, market, w) /\ UNCHANGED env

get_top_cols == query = NoQuery /\ GetCols("top")
get_trade_cols == query = NoQuery /\ GetCols("trade")
get_depth_cols == query = NoQuery /\ GetCols("depth")

NextDisc == get_top_cols \/ get_trade_cols \/ get_depth_cols

SpecDisc == InitDisc /\ [][NextDisc]_vars

\* --------------------------------------------- the library under its toggles
\* The two days the files of this machine are of: 1970-01-30 and 1970-01-31.
ToggleDays == {29, 30}

\* The file of kind k for day d: one row group, two rows inside the day.
DayFile(k, d) ==
  IF k = "depth"
  THEN File("depth", <<DepthRG(10 * d, <<d * DayNs, d * DayNs + 1>>, <<1, 0>>, <<2, 1>>)>>)
  ELSE File(k, <<ScalarRG(k, 10 * d, <<d * DayNs, d * DayNs + 1>>)>>)

\* A tree with both days in both markets for every kind; the spot file of the
\* second day has an unreadable footer.
ToggleDisk ==
  [p \in {PathOf(Root, Symb, k, m, CivilFromDays(d)) :
            k \in Kinds, m \in {"fut", "spot"}, d \in ToggleDays} |->
     LET d == CHOOSE x \in ToggleDays : CivilFromDays(x).day = p.file[7]
     IN IF p.file[3] = "spot" /\ d = 30 THEN Unreadable ELSE DayFile(p.file[2], d)]

\* The market arguments and windows of the call: both markets or spot; from
\* the first day's midnight or just after it; empty, to that day's end, or
\* a tick into the second day.
ToggleMarkets == {NoMarket, Some("spot")}
ToggleWindows ==
  {[s |-> 29 * DayNs + x, e |-> 29 * DayNs + x + len] :
     x \in {0, 1}, len \in {0, DayNs - 1, DayNs + 1}}

\* debug_try_path for every path the day loop of one market builds.
RECURSIVE TryLines(_, _, _, _, _, _, _)
TryLines(present, root, symb, base_type, mkt, cur, end_floor) ==
  IF cur > end_floor THEN <<>>
  ELSE With(PathOf(root, symb, base_type, mkt, ymd_utc_from_ns(cur)), LAMBDA path :
         << <<"try", path, path \in present>> >>
           \o TryLines(present, root, symb, base_type, mkt, cur + DayNs, end_floor))

\* What candidate_files_strict and the Impl constructor write to cerr with
\* g_debug on (the ShardedDB has no sampling): a line per path tried, the
\* candidates found, and the candidates the reader was constructed over.
DebugLines(on, present, k, market, w, res) ==
  IF ~on \/ res.thr \/ w.s >= w.e THEN
    IF on /\ ~res.thr THEN << <<"reader", k, res.out>> >> ELSE <<>>
  ELSE
    LET markets == IF market.has THEN <<norm_market(market).val>> ELSE <<"fut", "spot">>
    IN Concat([i \in DOMAIN markets |->
                 TryLines(present, Root, Symb, k, markets[i],
                          floor_day_ns(w.s), floor_day_ns(w.e - 1))])
       \o << <<"candidates", k, res.out>>, <<"reader", k, res.out>> >>

InitToggle == disk = ToggleDisk /\ NoReaderYet /\ aux = NoAux

\* ShardedDB::set_debug, ShardedDB::set_prefetch, called while no next() runs.
set_debug ==
  /\ ret # "running"
  /\ \E enabled \in BOOLEAN : g_debug' = enabled
  /\ UNCHANGED <<disk, query, cands, threw, kind, files_, start_ns_, end_ns_, sel_,
                 file_idx_, fs_, bufs, cur_file_base_, out, ret, raised, reads, warns,
                 exh, opens, delivered, g_prefetch, hints, peer, aux>>

set_prefetch ==
  /\ ret # "running"
  /\ \E enabled \in BOOLEAN : g_prefetch' = enabled
  /\ UNCHANGED <<disk, query, cands, threw, kind, files_, start_ns_, end_ns_, sel_,
                 file_idx_, fs_, bufs, cur_file_base_, out, ret, raised, reads, warns,
                 exh, opens, delivered, g_debug, hints, peer, aux>>

\* A get_*_cols call under the toggles as they are.
get_cols ==
  /\ query = NoQuery
  /\ \E k \in Kinds, market \in ToggleMarkets, w \in ToggleWindows :
       /\ Called(k, market, w)
       /\ hints' = hints \o DebugLines(g_debug, DOMAIN disk, k, market, w,
                                       candidate_files_strict(DOMAIN disk, Root, Symb, k,
                                                              market, w.s, w.e))
  /\ UNCHANGED <<g_debug, g_prefetch, peer, aux>>

\* The caller enters next() on the reader the call returned.
scan_next == query # NoQuery /\ ~threw /\ BeginNext

NextToggle == set_debug \/ set_prefetch \/ get_cols \/ scan_next \/ Iterate

SpecToggle == InitToggle /\ [][NextToggle]_vars

\* ------------------------------------------- the column cursor as a machine
\* No reader is open and no file is on disk while a cursor is exercised alone,
\* or while a stand-alone utility runs.
LibIdle == disk = <<>> /\ NoReaderYet

\* Rows of a column a cursor is put on, and the calls made on it.
CurRows == 2
CurOps == 7

\* Column chunks: list leaves of up to CurRows rows (absent, empty, one or
\* two elements) and required columns, whole, truncated or with the last
\* value lost, cut into data pages at any positions.
CurColumns ==
  LET lists == {ListCol(sizes, 1, 1) : sizes \in UNION {[1..n -> (0 - 1)..2] : n \in 0..CurRows}}
      reqs  == {ReqCol("INT64", [i \in 1..n |-> 100 * i + 7]) : n \in 0..CurRows}
      whole == lists \cup reqs
      cut   == whole \cup {DropLast(c) : c \in {x \in whole : x.def # <<>>}}
                     \cup {DropLastValue(c) : c \in {x \in whole : x.val # <<>>}}
  IN UNION {{[c EXCEPT !.pages = P] : P \in SUBSET (1..(Len(c.def) - 1))} : c \in cut}

\* The same chunk with a data page per level: every read returns one level.
OneByOne(col) == [col EXCEPT !.pages = 1..Len(col.def)]

NoCall == [op |-> "none", at |-> 0, nil |-> FALSE, e |-> NoEntry, thr |-> FALSE,
           count |-> 0, out |-> <<>>]

\* The level slots the cursor has handed out: those fetched, less those
\* still buffered, less the pending entry.
Consumed(c) ==
  c.lpos - (IF c.level_idx < c.levels_in_buf THEN c.levels_in_buf - c.level_idx ELSE 0)
         - (IF c.has_pending THEN 1 ELSE 0)

\* What one call on cursor c does: the cursor after it and what it returned.
CallPeek(c) ==
  With(Peek(c), LAMBDA r :
    [c |-> r.c, res |-> [op |-> "peek", at |-> Consumed(c), nil |-> r.nil, e |-> r.e,
                         thr |-> r.thr, count |-> 0, out |-> <<>>]])

CallTake(c) ==
  With(Take(c), LAMBDA r :
    [c |-> r.c, res |-> [op |-> "take", at |-> Consumed(c), nil |-> ~r.e.valid, e |-> r.e,
                         thr |-> r.thr, count |-> 0, out |-> <<>>]])

CallList(c, wr) ==
  With(AppendListFromLeaf(c, <<>>, wr), LAMBDA r :
    [c |-> r.c, res |-> [op |-> "list", at |-> Consumed(c), nil |-> FALSE, e |-> NoEntry,
                         thr |-> r.thr, count |-> r.count, out |-> r.out]])

\* A cursor on a column, and beside it a cursor on the same column read one
\* level at a time, on which the same calls are made.
InitCur ==
  /\ LibIdle
  /\ \E col \in CurColumns :
       aux = [prog |-> "cursor", c |-> NewCursor(col), one |-> NewCursor(OneByOne(col)),
              last |-> NoCall, ref |-> NoCall, nops |-> 0]

Called2(r, r1) ==
  aux' = [aux EXCEPT !.c = r.c, !.last = r.res, !.one = r1.c, !.ref = r1.res,
                     !.nops = @ + 1]

peek ==
  /\ aux.prog = "cursor" /\ aux.nops < CurOps
  /\ Called2(CallPeek(aux.c), CallPeek(aux.one))
  /\ UNCHANGED lib

take ==
  /\ aux.prog = "cursor" /\ aux.nops < CurOps
  /\ Called2(CallTake(aux.c), CallTake(aux.one))
  /\ UNCHANGED lib

append_list_from_leaf_for_row ==
  /\ aux.prog = "cursor" /\ aux.nops < CurOps
  /\ \E wr \in BOOLEAN : Called2(CallList(aux.c, wr), CallList(aux.one, wr))
  /\ UNCHANGED lib

NextCur == peek \/ take \/ append_list_from_leaf_for_row

SpecCur == InitCur /\ [][NextCur]_vars

\* ------------------------------------- one book side of the depth row loop
\* Rows of the row group whose ask side is assembled.
LegRows == 2

\* List sizes of up to LegRows rows: absent, empty, one or two elements.
LegSizes == UNION {[1..n -> (0 - 1)..2] : n \in 0..LegRows}

\* The chunks a list leg may be stored as: whole, truncated, or with its last
\* value lost.
LegColumns(leg) ==
  LET whole == {ListCol(sizes, leg, 1) : sizes \in LegSizes}
  IN whole \cup {DropLast(c) : c \in {x \in whole : x.def # <<>>}}
           \cup {DropLastValue(c) : c \in {x \in whole : x.val # <<>>}}

\* The ask flags a DeltaSelect may carry when the ask side is needed.
AskSels == {{"ask_px", "ask_qty"}, {"ask_px"}, {"ask_qty"}}

\* next_rg after its cursors are constructed and its buffers cleared, for
\* the ask side alone: a cursor on each selected leg, ask_off = <<0>>.  The
\* two legs are written independently of each other.
InitLegs ==
  /\ LibIdle
  /\ \E sel \in AskSels :
     \E cp \in (IF "ask_px" \in sel THEN LegColumns(1) ELSE {ListCol(<<>>, 1, 1)}) :
     \E cq \in (IF "ask_qty" \in sel THEN LegColumns(2) ELSE {ListCol(<<>>, 2, 1)}) :
       aux = [prog |-> "legs", sel |-> sel,
              st |-> [cur  |-> [n \in {"ask_px", "ask_qty"} |->
                                  NewCursor(IF n = "ask_px" THEN cp ELSE cq)],
                      bufs |-> [n \in {"ask_px", "ask_qty", "ask_off"} |->
                                  IF n = "ask_off" THEN <<0>> ELSE <<>>],
                      thr  |-> FALSE],
              hist |-> <<>>]

\* What one pass of the row loop did on the ask side: whether the row was in
\* the window, the cursors before it, the count it reported.
RowDone(in_range, a) ==
  [in_range |-> in_range, cur |-> aux.st.cur, added |-> a.added, thr |-> a.st.thr]

\* One pass of  for (r = 0; r < rows; ++r)  on the ask side: the assembler
\* the selection calls for, then the offset of an in-window row.
depth_row ==
  /\ aux.prog = "legs" /\ ~aux.st.thr /\ Len(aux.hist) < LegRows
  /\ \E in_range \in BOOLEAN :
       With(DepthSide(aux.st, aux.sel, "ask_px", "ask_qty", in_range), LAMBDA a :
         aux' = [aux EXCEPT
                   !.st = IF a.st.thr \/ ~in_range THEN a.st
                          ELSE [a.st EXCEPT !.bufs["ask_off"] = PushOffset(@, a.added)],
                   !.hist = Append(@, RowDone(in_range, a))])
  /\ UNCHANGED lib

SpecLegs == InitLegs /\ [][depth_row]_vars

\* ------------------------------------------------------ claims: vocabulary
\* The timestamps a file physically holds, row group by row group.
PhysTs(f, g) == f.rgs[g].col["ts"].val

\* The sub-sequence of q inside [s, e).
RECURSIVE InWin(_, _, _)
InWin(q, s, e) ==
  IF q = <<>> THEN <<>>
  ELSE (IF s <= Head(q) /\ Head(q) < e THEN <<Head(q)>> ELSE <<>>) \o InWin(Tail(q), s, e)

\* How often v occurs in q.
Count(q, v) == Cardinality({i \in DOMAIN q : q[i] = v})

\* Scanning file f alone raises an error (on open or in one of its row groups).
RECURSIVE ScanRaises(_, _, _)
ScanRaises(cfg, f, st) ==
  LET res == NextRg(cfg, f, 1, st)
  IN IF res.thr THEN TRUE
     ELSE IF ~res.ok THEN FALSE
     ELSE ScanRaises(cfg, f, [rg_idx |-> res.rg_idx, bufs |-> res.bufs, reads |-> {}])

FileDecodes(cfg, f) ==
  f.ok /\ ~ScanRaises(cfg, f, [rg_idx |-> 0, bufs |-> EmptyBufs(cfg.kind), reads |-> {}])

\* The in-window timestamps file f physically holds, in row order.
RECURSIVE FileInWin(_, _, _, _)
FileInWin(f, g, s, e) ==
  IF g > Len(f.rgs) THEN <<>>
  ELSE InWin(PhysTs(f, g), s, e) \o FileInWin(f, g + 1, s, e)

\* The timestamps delivered from candidate fi, in delivery order.
RECURSIVE DeliveredTs(_, _)
DeliveredTs(d, fi) ==
  IF d = <<>> THEN <<>>
  ELSE (IF Head(d).file = fi THEN Head(d).data["ts"] ELSE <<>>) \o DeliveredTs(Tail(d), fi)

\* The scan is over: next() has returned false.
ScanDone == ret = "false"

\* ---------------------------------------------------------------------- C1
\* C1: every row of every delivered batch has its timestamp in
\* [start_ns_, end_ns_) - so a row with t = end is never delivered - and once
\* the scan is over every physical row with t = start of a file that decodes
\* without error has been delivered.
C1_WindowHalfOpen ==
  /\ \A i \in DOMAIN delivered :
       \A j \in DOMAIN delivered[i].data["ts"] :
          /\ start_ns_ <= delivered[i].data["ts"][j]
          /\ delivered[i].data["ts"][j] < end_ns_
  /\ ScanDone =>
       \A fi \in DOMAIN files_ :
          FileDecodes(Cfg, FileAt(Cfg, fi)) =>
             Count(DeliveredTs(delivered, fi), start_ns_)
               >= Count(FileInWin(FileAt(Cfg, fi), 1, start_ns_, start_ns_ + 1), start_ns_)

\* A finished scan that delivered a row with t = start from a file that also
\* holds a row with t = end.
C1_Witness ==
  /\ ScanDone
  /\ \E i \in DOMAIN delivered :
       /\ start_ns_ \in Range(delivered[i].data["ts"])
       /\ end_ns_ \in Range(PhysTs(FileAt(Cfg, delivered[i].file), delivered[i].rg))

\* ---------------------------------------------------------------------- C2
\* The in-window timestamps of the candidates fi.. that decode without error.
RECURSIVE ValidRows(_, _)
ValidRows(cfg, fi) ==
  IF fi > Len(cfg.files) THEN <<>>
  ELSE (IF FileDecodes(cfg, FileAt(cfg, fi))
        THEN FileInWin(FileAt(cfg, fi), 1, cfg.s, cfg.e) ELSE <<>>) \o ValidRows(cfg, fi + 1)

\* C2: a candidate that fails on open or in any of its row groups contributes
\* no rows: when the scan is over, the timestamps delivered are exactly the
\* in-window rows of the files that decode without error, and the view.n sum
\* to the number of those rows.
C2_FailedFileSkipped ==
  ScanDone =>
    /\ Concat([i \in DOMAIN delivered |-> delivered[i].data["ts"]]) = ValidRows(Cfg, 1)
    /\ SumSeq([i \in DOMAIN delivered |-> delivered[i].view.n]) = Len(ValidRows(Cfg, 1))

\* ---------------------------------------------------------------------- C3
\* C3: no error leaves next(); a failing candidate is logged and abandoned and
\* the in-window rows of every decodable candidate are still delivered.
C3_NoFailurePropagates ==
  /\ ~raised
  /\ Len(warns) <= file_idx_
  /\ ScanDone =>
       \A fi \in DOMAIN files_ :
          FileDecodes(Cfg, FileAt(Cfg, fi)) =>
             \A t \in start_ns_..(end_ns_ - 1) :
                Count(DeliveredTs(delivered, fi), t)
                  >= Count(FileInWin(FileAt(Cfg, fi), 1, start_ns_, end_ns_), t)

\* A finished scan in which a candidate failed while decoding and a later
\* candidate delivered rows.
C3_Witness ==
  /\ ScanDone
  /\ \E w \in Range(warns) :
       /\ w[1] = "read failed"
       /\ \E i \in DOMAIN delivered : delivered[i].file > w[2]

\* ---------------------------------------------------------------------- C4
\* The offsets off of batch b against the selected legs of their side.
OffsetsShape(b, sel, off, legs) ==
  LET o == b.data[off]
      n == b.view.n
  IN legs \cap sel # {} =>
       /\ Len(o) = n + 1
       /\ o[1] = 0
       /\ \A i \in 1..n : o[i] <= o[i + 1]
       /\ \A leg \in legs \cap sel : Len(b.data[leg]) = o[n + 1]

\* C4: in every batch of a depth reader, for each side with a selected leg,
\* the offsets have n+1 entries, start at 0, never decrease, and end at the
\* length of each selected value buffer of that side.
C4_OffsetsWellFormed ==
  kind = "depth" =>
    \A i \in DOMAIN delivered :
       /\ OffsetsShape(delivered[i], sel_, "ask_off", {"ask_px", "ask_qty"})
       /\ OffsetsShape(delivered[i], sel_, "bid_off", {"bid_px", "bid_qty"})

\* A depth batch of three rows whose ask lists hold elements and whose middle
\* list is empty.
C4_Witness ==
  /\ kind = "depth"
  /\ \E i \in DOMAIN delivered :
       /\ delivered[i].view.n = 3
       /\ "ask_px" \in sel_
       /\ delivered[i].data["ask_off"][2] = delivered[i].data["ask_off"][3]
       /\ Len(delivered[i].data["ask_px"]) = 3

\* ---------------------------------------------------------------------- C5
\* The prefix sums of the written sizes (an absent list, -1, counts 0).
RECURSIVE Offsets(_, _)
Offsets(sizes, from) ==
  IF sizes = <<>> THEN <<from>>
  ELSE <<from>> \o Offsets(Tail(sizes), from + (IF Head(sizes) < 0 THEN 0 ELSE Head(sizes)))

\* The written list sizes of the rows of rg with timestamp in [s, e).
RECURSIVE SizesInWin(_, _, _, _)
SizesInWin(tsq, sizes, s, e) ==
  IF tsq = <<>> THEN <<>>
  ELSE (IF s <= Head(tsq) /\ Head(tsq) < e THEN <<Head(sizes)>> ELSE <<>>)
         \o SizesInWin(Tail(tsq), Tail(sizes), s, e)

ListsIntact(rg, legs) ==
  /\ "ts" \notin rg.damaged
  /\ \A leg \in legs : ColName("depth", leg) \notin rg.damaged

IdColumns(k) ==
  {c \in (IF k = "depth" THEN Range(DepthScalarFlags) ELSE Range(ScalarFlags(k))) :
     ColType(k, c) = "INT64"}

\* C6: batches are delivered in candidate-list order of their files and, within
\* a file, in ascending row-group index; inside a batch the rows keep their
\* physical order.
C6_DeliveryOrder ==
  /\ \A i, j \in DOMAIN delivered :
       i < j => \/ delivered[i].file < delivered[j].file
                \/ /\ delivered[i].file = delivered[j].file
                   /\ delivered[i].rg < delivered[j].rg
  /\ \A i \in DOMAIN delivered :
       LET b  == delivered[i]
           rg == FileAt(Cfg, b.file).rgs[b.rg]
       IN /\ "ts" \notin rg.damaged =>
               b.data["ts"] = InWin(PhysTs(FileAt(Cfg, b.file), b.rg), start_ns_, end_ns_)
          /\ \A c \in IdColumns(kind) \cap sel_ :
               \A x, y \in DOMAIN b.data[c] :
                  x < y => (b.data[c][x] \div 100) < (b.data[c][y] \div 100)

\* Three batches from two files, two of them from one file, one of them with
\* timestamps that are not sorted.
C6_Witness ==
  /\ Len(delivered) = 3
  /\ delivered[1].file = 1 /\ delivered[2].file = 1 /\ delivered[3].file = 2
  /\ \E i \in DOMAIN delivered : delivered[i].data["ts"] = <<3, 2>>

\* ---------------------------------------------------------------------- C7
\* C7: a true from next() carries n >= 1, no batch comes from a row group
\* without an in-window row, and a streamer reports false only with its
\* row-group index at the file's number of row groups.
C7_NoEmptyBatch ==
  /\ ret = "true" => out.n >= 1
  /\ \A i \in DOMAIN delivered :
       /\ delivered[i].view.n >= 1
       /\ InWin(PhysTs(FileAt(Cfg, delivered[i].file), delivered[i].rg),
                start_ns_, end_ns_) # <<>>
  /\ \A x \in exh : x[2] = Len(FileAt(Cfg, x[1]).rgs)

\* ---------------------------------------------------------------------- C8
\* The whole scan of a reader configured as cfg: the batches it delivers.
RECURSIVE ScanAll(_, _, _)
ScanAll(cfg, r, acc) ==
  LET res == ReaderNext(cfg, r)
  IN IF res.raised \/ ~res.ret THEN acc
     ELSE ScanAll(cfg, res.r,
                  Append(acc, [view |-> ViewOf(cfg, res.r.bufs, res.r.cur_file_base_),
                               data |-> res.r.bufs]))

\* n and the selected scalar columns of a batch.
ScalarPart(b, sel) ==
  [n |-> b.view.n,
   cols |-> [c \in ({"ts"} \cup Range(DepthScalarFlags)) \cap sel |-> b.data[c]]]

ListFlagsOff == kind = "depth" /\ sel_ \cap Range(DepthListFlags) = {}

ListBuffersEmpty ==
  \A i \in DOMAIN delivered :
     /\ \A c \in Range(DepthListFlags) :
          delivered[i].data[c] = <<>> /\ ~delivered[i].view.ptr[c]
     /\ ~delivered[i].view.ptr["ask_off"] /\ ~delivered[i].view.ptr["bid_off"]

SameAsWithLists ==
  LET twin == ScanAll([Cfg EXCEPT !.sel = sel_ \cup Range(DepthListFlags)],
                      NewReader("depth"), <<>>)
  IN [i \in DOMAIN delivered |-> ScalarPart(delivered[i], sel_)]
       = [i \in DOMAIN twin |-> ScalarPart(twin[i], sel_)]

\* C8 as stated: with the four list flags off, every batch has empty list
\* buffers and null list and offset pointers, and n and the selected scalar
\* columns are those delivered with the list flags on.
C8_AsStated ==
  ListFlagsOff => /\ ListBuffersEmpty
                  /\ ScanDone => SameAsWithLists

\* Every candidate that opens carries its four list columns, undamaged.
ListColumnsDecode ==
  \A fi \in DOMAIN files_ :
     FileAt(Cfg, fi).ok =>
       /\ \A c \in Range(DepthListFlags) : ColName("depth", c) \in FileAt(Cfg, fi).schema
       /\ \A g \in DOMAIN FileAt(Cfg, fi).rgs :
            \A c \in Range(DepthListFlags) :
               ColName("depth", c) \notin FileAt(Cfg, fi).rgs[g].damaged

\* C8, for list columns that decode: with the four list flags off, every batch
\* has empty list buffers and null list and offset pointers, and when every
\* candidate's list columns are present and undamaged, n and the selected
\* scalar columns are those delivered with the list flags on.
C8_ListsOff ==
  ListFlagsOff => /\ ListBuffersEmpty
                  /\ (ScanDone /\ ListColumnsDecode) => SameAsWithLists

\* A finished depth scan with the list flags off that delivered two batches.
C8_Witness ==
  /\ ListFlagsOff
  /\ ScanDone
  /\ ListColumnsDecode
  /\ Len(delivered) >= 2

\* ---------------------------------------------------------------------- C9
\* C9 as stated: no read is issued against a column whose Select flag is
\* false, ts included.
C9_AsStated == \A x \in reads : x[3] \in sel_

\* C9, ts excepted: the only column read with its flag false is ts, which
\* every streamer reads to apply the window; every other column read is
\* selected.
C9_OnlySelectedRead == \A x \in reads : x[3] = "ts" \/ x[3] \in sel_

\* A scan with ts deselected that read ts and a selected column.
C9_Witness ==
  /\ "ts" \notin sel_
  /\ \E x, y \in reads : x[3] = "ts" /\ y[3] \in sel_
  /\ delivered # <<>>

\* ------------------------------------------------------------------ C10
\* The UTC calendar days (as day numbers) that overlap [s, e): day d covers
\* [d * DayNs, (d + 1) * DayNs).
OverlapDays(s, e) ==
  {d \in (s \div DayNs - 2)..(e \div DayNs + 2) : d * DayNs < e /\ s < (d + 1) * DayNs}

\* The overlapping days whose file of the queried kind and market exists.
DaysOnDisk(q) ==
  {d \in OverlapDays(q.s, q.e) :
     PathOf(Root, Symb, q.kind, norm_market(q.market).val, CivilFromDays(d)) \in DOMAIN disk}

\* A call that named an accepted market and a non-empty window.
OneMarketCall ==
  /\ query.kind # ""
  /\ query.market.has
  /\ ~threw
  /\ query.s < query.e

\* C10: for a given market and a window [s, e) with s < e, discovery returns
\* exactly one candidate for each UTC day that overlaps the window and whose
\* file exists at the layout path, in ascending day order, each carrying that
\* day's [midnight, midnight + 24h); missing days give no candidate, no error.
C10_OnePerOverlappingDay ==
  OneMarketCall =>
    /\ Len(cands) = Cardinality(DaysOnDisk(query))
    /\ \A i, j \in DOMAIN cands : i < j => cands[i].file_start_ns < cands[j].file_start_ns
    /\ \A d \in DaysOnDisk(query) :
         \E i \in DOMAIN cands :
            cands[i] = [path |-> PathOf(Root, Symb, query.kind,
                                        norm_market(query.market).val, CivilFromDays(d)),
                        file_start_ns |-> d * DayNs,
                        file_end_ns   |-> (d + 1) * DayNs]
\* ------------------------------------------------------------------ C11
\* The market and the civil day a candidate's path names.
MarketOf(c) == c.path.file[3]
DayOf(c) == SubSeq(c.path.file, 5, 7)

\* The candidate of market mkt for the day candidate c is of, were it found.
Twin(c, mkt) ==
  [c EXCEPT !.path = PathOf(Root, Symb, query.kind, mkt,
                            [year |-> DayOf(c)[1], month |-> DayOf(c)[2], day |-> DayOf(c)[3]])]

\* q ascends by day.
AscendingByDay(q) == \A i, j \in DOMAIN q : i < j => q[i].file_start_ns < q[j].file_start_ns

\* A call that returned a candidate list.
CallReturned == query.kind # "" /\ ~threw

\* C11: without a market, discovery returns the candidates of "fut" ascending
\* by day, then those of "spot" ascending by day, both over the same days: a
\* day found in one market is found in the other when its file exists there.
\* With a market, every candidate lies in that market's directory.
C11_MarketThenDay ==
  CallReturned =>
    /\ \A i \in DOMAIN cands : cands[i].path \in DOMAIN disk
    /\ IF query.market.has
       THEN \A i \in DOMAIN cands :
              /\ MarketOf(cands[i]) = norm_market(query.market).val
              /\ cands[i].path.dir[2] = <<query.kind, norm_market(query.market).val>>
       ELSE /\ \E k \in 0..Len(cands) :
                /\ \A i \in 1..k : MarketOf(cands[i]) = "fut"
                /\ \A i \in (k + 1)..Len(cands) : MarketOf(cands[i]) = "spot"
                /\ AscendingByDay(SubSeq(cands, 1, k))
                /\ AscendingByDay(SubSeq(cands, k + 1, Len(cands)))
            /\ \A i \in DOMAIN cands :
                 \A mkt \in {"fut", "spot"} :
                    Twin(cands[i], mkt).path \in DOMAIN disk
                      => Twin(cands[i], mkt) \in Range(cands)

\* A call without a market that found two days in each market.
C11_Witness ==
  /\ CallReturned
  /\ ~query.market.has
  /\ Cardinality({i \in DOMAIN cands : MarketOf(cands[i]) = "fut"}) >= 2
  /\ Cardinality({i \in DOMAIN cands : MarketOf(cands[i]) = "spot"}) >= 2
\* ------------------------------------------------------------------ C12
\* No candidate of the reader physically holds a row inside the window.
NoRowInWindow ==
  \A fi \in DOMAIN files_ :
     FileInWin(FileAt(Cfg, fi), 1, start_ns_, end_ns_) = <<>>

\* The reader has delivered nothing and raised nothing.
NothingDelivered == ret # "true" /\ delivered = <<>> /\ ~raised

\* C12: a reader over a window with start >= end has no candidates and every
\* next() on it returns false without an error; a scan whose candidates hold
\* no in-window row returns false from next() and delivers no batch.
C12_EmptyScan ==
  /\ start_ns_ >= end_ns_ => files_ = <<>> /\ NothingDelivered
  /\ NoRowInWindow => NothingDelivered
\* ------------------------------------------------------------------ C13
\* The market tokens the interface accepts, whatever their case.
Accepted(m) == to_lower(m) \in {"spot", "fut", "future", "futures"}

\* C13: a get_top_cols / get_trade_cols / get_depth_cols call with a market
\* token that is not accepted raises at that call, for every window, and no
\* reader is constructed.
C13_BadMarketRaises ==
  (query.kind # "" /\ query.market.has /\ ~Accepted(query.market.val))
    => threw /\ start_ns_ = 0 /\ end_ns_ = 0 /\ files_ = <<>>
\* ------------------------------------------------------------------ C14
\* The columns a reader of kind k with selection sel needs a file to have.
NeededColumns(k, sel) == {"ts"} \cup {ColName(k, c) : c \in sel \ {"ts"}}

\* Candidate fi lacks the ts column or a selected column.
LacksColumn(fi) ==
  /\ FileAt(Cfg, fi).ok
  /\ ~(NeededColumns(kind, sel_) \subseteq FileAt(Cfg, fi).schema)

InBounds ==
  /\ file_idx_ <= Len(files_)
  /\ fs_.open => /\ file_idx_ < Len(files_)
                 /\ fs_.rg_idx <= Len(FileAt(Cfg, file_idx_ + 1).rgs)

\* The position moves forward: a later file, or a later row group of the file.
Advances ==
  \/ file_idx_' > file_idx_
  \/ file_idx_' = file_idx_ /\ fs_'.rg_idx > fs_.rg_idx

\* C15: every call of next() terminates: the position stays within the
\* finite candidate list and the files' row groups, every iteration that does
\* not return advances the row-group index or the file index, and a call that
\* is running returns.
C15_NextTerminates ==
  /\ []InBounds
  /\ [][ret = "running" /\ ret' = "running" => Advances]_vars
  /\ (ret = "running") ~> (ret # "running")

\* A call still running after it gave up one file and went past a row group
\* of the next.
C15_Witness ==
  /\ ret = "running"
  /\ warns # <<>>
  /\ fs_.open
  /\ fs_.rg_idx >= 1
\* ------------------------------------------------------------------ C16
\* The batches of a delivery trace: view and buffers.
Batches(d) == [i \in DOMAIN d |-> [view |-> d[i].view, data |-> d[i].data]]

\* a is an initial part of b.
IsPrefix(a, b) == Len(a) <= Len(b) /\ SubSeq(b, 1, Len(a)) = a

\* The batches a reader configured as cfg delivers when it runs alone.
Alone(cfg) ==
  ScanAll(cfg, [file_idx_ |-> 0, fs_ |-> NoFs, bufs |-> EmptyBufs(cfg.kind),
                cur_file_base_ |-> <<>>, reads |-> {}, warns |-> <<>>, exh |-> {},
                opens |-> <<>>, src |-> <<0, 0>>], <<>>)

\* The reader's deliveries d, with its last return value, are those of a
\* reader configured as cfg running alone.
AsAlone(d, last, cfg) ==
  /\ IsPrefix(Batches(d), Alone(cfg))
  /\ last = "false" => Batches(d) = Alone(cfg)

QuietCandidates ==
  candidate_files_strict(DOMAIN disk, Root, Symb, query.kind, query.market,
                         query.s, query.e).out

AllDecode == \A fi \in DOMAIN files_ : FileDecodes(Cfg, FileAt(Cfg, fi))

\* The in-window timestamps the candidates fi.. physically hold, in order.
RECURSIVE PhysicalRows(_, _)
PhysicalRows(cfg, fi) ==
  IF fi > Len(cfg.files) THEN <<>>
  ELSE FileInWin(FileAt(cfg, fi), 1, cfg.s, cfg.e) \o PhysicalRows(cfg, fi + 1)

\* C21: when every candidate opens and decodes without error, the timestamps
\* of the batches delivered until next() returns false, concatenated, are
\* the in-window physical rows of the candidates: each once, none missing,
\* none duplicated.
C21_EachRowOnce ==
  (ScanDone /\ AllDecode) =>
    Concat([i \in DOMAIN delivered |-> delivered[i].data["ts"]]) = PhysicalRows(Cfg, 1)

\* --------------------------------------------------------------------- C22
\* The timestamps the reader decodes for the rows of a row group: the stored
\* ones, and 0 where the chunk has ended.
DecodedTs(rg) == Resize(rg.col["ts"].val, rg.rows)

\* The row numbers of the row group whose decoded timestamp is in [s, e).
RECURSIVE KeptRows(_, _, _, _)
KeptRows(tsq, i, s, e) ==
  IF i > Len(tsq) THEN <<>>
  ELSE (IF s <= tsq[i] /\ tsq[i] < e THEN <<i>> ELSE <<>>) \o KeptRows(tsq, i + 1, s, e)

\* The elements physical row i of a list leaf holds, from its level streams:
\* the values of the slots of the i-th run that starts with repetition level 0.
RowStart(col, i) ==
  CHOOSE p \in DOMAIN col.rep :
    col.rep[p] = 0 /\ Cardinality({q \in 1..p : col.rep[q] = 0}) = i

RowSlots(col, i) ==
  {p \in DOMAIN col.rep : Cardinality({q \in 1..p : col.rep[q] = 0}) = i}

RowElems(col, i) ==
  LET before == Cardinality({p \in 1..(RowStart(col, i) - 1) : col.def[p] = col.max_def})
      here   == Cardinality({p \in RowSlots(col, i) : col.def[p] = col.max_def})
  IN SubSeq(col.val, before + 1, before + here)

\* Batch b, decoded from row group rg, holds in every selected column at
\* index j what physical row rows[j] holds, rows being the in-window rows.
RowsAligned(b, rg, k, sel, s, e) ==
  LET rows == KeptRows(DecodedTs(rg), 1, s, e)
      off(side) == b.data[IF side = "ask" THEN "ask_off" ELSE "bid_off"]
      sideOf(c) == IF c \in {"ask_px", "ask_qty"} THEN "ask" ELSE "bid"
      scalars == IF k = "depth" THEN Range(DepthScalarFlags) ELSE Range(ScalarFlags(k))
  IN /\ b.view.n = Len(rows)
     /\ b.data["ts"] = [j \in DOMAIN rows |-> DecodedTs(rg)[rows[j]]]
     /\ \A c \in scalars \cap sel :
          b.data[c] = [j \in DOMAIN rows |-> rg.col[ColName(k, c)].val[rows[j]]]
     /\ k = "depth" =>
          \A c \in Range(DepthListFlags) \cap sel :
             \A j \in DOMAIN rows :
                SubSeq(b.data[c], off(sideOf(c))[j] + 1, off(sideOf(c))[j + 1])
                  = RowElems(rg.col[ColName(k, c)], rows[j])

\* C22: in every batch, for each index j < n, the j-th value of every
\* selected scalar column and the j-th list slice of every selected list
\* side come from the physical row of the j-th timestamp.
C22_RowsAligned ==
  \A i \in DOMAIN delivered :
     RowsAligned(delivered[i], FileAt(Cfg, delivered[i].file).rgs[delivered[i].rg],
                 kind, sel_, start_ns_, end_ns_)

\* A depth batch of the last two rows of a three-row row group, the first row
\* filtered out, with an empty and a one-element ask list and a scalar column.
C22_Witness ==
  /\ kind = "depth"
  /\ {"ask_px", "firstId"} \subseteq sel_
  /\ \E i \in DOMAIN delivered :
       LET rg == FileAt(Cfg, delivered[i].file).rgs[delivered[i].rg]
       IN /\ rg.rows = 3
          /\ delivered[i].data["ts"] = <<2, 3>>
          /\ delivered[i].data["ask_off"] = <<0, 0, 1>>
          /\ delivered[i].data["ask_px"] = RowElems(rg.col["ask.list.element.px"], 3)
          /\ Len(delivered[i].data["firstId"]) = 2

\* --------------------------------------------------------------------- C28
\* The columns next_rg decodes in a row group it returns a batch from.
DecodedColumns(k, sel) ==
  {"ts"} \cup {ColName(k, c) : c \in sel \cap (IF k = "depth"
                                                THEN Range(DepthScalarFlags) \cup Range(DepthListFlags)
                                                ELSE Range(ScalarFlags(k)))}

\* The column chunk yields fewer values than the row group declares rows: a
\* scalar chunk with fewer values, a list chunk with fewer rows or with fewer
\* values than its levels announce.
YieldsShort(rg, name) ==
  LET col == rg.col[name]
  IN IF col.max_rep = 0 THEN Len(col.val) < rg.rows
     ELSE \/ Cardinality({p \in DOMAIN col.rep : col.rep[p] = 0}) < rg.rows
          \/ Len(col.val) < Cardinality({p \in DOMAIN col.def : col.def[p] = col.max_def})

\* C28: for top, trade and depth, a row group in which a decoded column
\* yields fewer values than the declared row count produces no batch, no row
\* is fabricated for the missing values, and no later row group of the file
\* is delivered.
C28_ShortReadFails ==
  \A i \in DOMAIN delivered :
     LET f == FileAt(Cfg, delivered[i].file)
     IN /\ \A g \in 1..delivered[i].rg :
             (g = delivered[i].rg \/ InWin(DecodedTs(f.rgs[g]), start_ns_, end_ns_) # <<>>) =>
                \A name \in DecodedColumns(kind, sel_) \cap f.schema :
                   ~YieldsShort(f.rgs[g], name)
        /\ Range(delivered[i].data["ts"]) \subseteq Range(PhysTs(f, delivered[i].rg))

\* --------------------------------------------------------------------- C27
\* A list chunk whose levels announce more present values than it holds.
ValuesMissing(col) ==
  Len(col.val) < Cardinality({p \in DOMAIN col.def : col.def[p] = col.max_def})

\* Decoding row group g of file f under sel meets such a slot: a selected
\* list leg of it has values missing, and every cursor can be constructed.
Underflows(f, g, sel) ==
  /\ f.ok
  /\ \A c \in Range(DepthNeeded(sel)) : ~CursorFails(f, f.rgs[g], ColName("depth", c))
  /\ \E c \in Range(DepthListFlags) \cap sel :
       ValuesMissing(f.rgs[g].col[ColName("depth", c)])

\* C27: a slot at the maximum definition level whose refill holds no value
\* left raises an error; the reader logs it, discards the file's decoder,
\* moves to the next candidate and returns no batch from the failing row
\* group.
C27_UnderflowAbandonsFile ==
  kind = "depth" =>
    \A fi \in DOMAIN files_ :
       \A g \in DOMAIN FileAt(Cfg, fi).rgs :
          Underflows(FileAt(Cfg, fi), g, sel_) =>
            /\ \A i \in DOMAIN delivered :
                 ~(delivered[i].file = fi /\ delivered[i].rg >= g)
            /\ (ScanDone \/ \E i \in DOMAIN delivered : delivered[i].file > fi) =>
                 <<"read failed", fi>> \in Range(warns)
            /\ <<"read failed", fi>> \in Range(warns) =>
                 file_idx_ >= fi
            /\ ~raised

\* The second row group of a depth file underflowed after its first one was
\* delivered, and a batch of the next candidate followed.
C27_Witness ==
  /\ kind = "depth"
  /\ \E fi \in DOMAIN files_ :
       /\ Len(FileAt(Cfg, fi).rgs) = 2
       /\ Underflows(FileAt(Cfg, fi), 2, sel_)
       /\ <<"read failed", fi>> \in Range(warns)
       /\ \E i, j \in DOMAIN delivered :
            /\ delivered[i].file = fi /\ delivered[i].rg = 1
            /\ delivered[j].file = fi + 1

\* --------------------------------------------------------------------- C29
\* Row group g of candidate fi decoded on its own, into empty buffers.
DecodedAlone(fi, g) ==
  NextRg(Cfg, FileAt(Cfg, fi), fi,
         [rg_idx |-> g - 1, bufs |-> EmptyBufs(kind), reads |-> {}])

\* Batch b is the whole result of a decoding of its row group that raised
\* nothing.
WholeBatch(b) ==
  With(DecodedAlone(b.file, b.rg), LAMBDA d :
    /\ d.ok /\ ~d.thr
    /\ d.src = b.rg
    /\ \A c \in BufNames(kind) : c = "ts" \/ c \in sel_ \/ c \in {"ask_off", "bid_off"} =>
         d.bufs[c] = b.data[c])

\* The call that logged a failed read ended with false or with a batch of a
\* later candidate.
AfterFailedRead ==
  (Len(warns') > Len(warns) /\ warns'[Len(warns')][1] = "read failed") =>
    \/ ret' = "false"
    \/ /\ ret' = "true"
       /\ delivered'[Len(delivered')].file > warns'[Len(warns')][2]

\* C29: a row group whose decoding raises an error never yields a batch;
\* next() then returns a batch of a later file or false, never a view over
\* the partly filled buffers.
C29_NoPartialBatch ==
  /\ [](\A i \in DOMAIN delivered : WholeBatch(delivered[i]))
  /\ [][AfterFailedRead]_vars

\* next() returned false after a depth row group failed in the middle of a
\* row: the reader's ask buffer holds an element the offsets do not cover.
C29_Witness ==
  /\ kind = "depth"
  /\ ret = "false"
  /\ \E w \in Range(warns) : w[1] = "read failed"
  /\ "ask_px" \in sel_
  /\ bufs["ask_off"] # <<>>
  /\ Len(bufs["ask_px"]) > bufs["ask_off"][Len(bufs["ask_off"])]

\* --------------------------------------------------------------------- C23
\* The stored values that belong to the first p level slots of a column.
PresentUpTo(col, p) == Cardinality({i \in 1..p : col.def[i] = col.max_def})

\* The values a cursor has turned into entries.
ValuesUsed(c) == c.vpos - (c.values_in_buf - c.value_idx)

\* The level slots a cursor has turned into entries.
SlotsDecoded(c) == Consumed(c) + (IF c.has_pending THEN 1 ELSE 0)

\* C23: an entry has a value exactly when its definition level is the
\* column's maximum; an entry at a lower level has value 0, uses up no stored
\* value and raises nothing; the k-th entry that has a value carries the k-th
\* stored value.
C23_ValueIffMaxDef ==
  aux.prog = "cursor" =>
    LET l == aux.last  col == aux.c.col  p == aux.last.at + 1 IN
    /\ ValuesUsed(aux.c) = PresentUpTo(col, SlotsDecoded(aux.c))
    /\ (l.op \in {"peek", "take"} /\ l.e.valid) =>
         /\ l.e.def = col.def[p]
         /\ l.e.has_value <=> (l.e.def = col.max_def)
         /\ ~l.e.has_value => l.e.value = 0
         /\ l.e.has_value => /\ PresentUpTo(col, p) <= Len(col.val)
                             /\ l.e.value = col.val[PresentUpTo(col, p)]
    /\ (l.op \in {"peek", "take"} /\ l.thr) =>
         /\ p <= Len(col.def)
         /\ col.def[p] = col.max_def

\* After the entry of an empty list, which has no value, both elements of
\* the next list have been taken: the third entry carries the second stored
\* value.
C23_Witness ==
  /\ aux.prog = "cursor"
  /\ aux.last.op = "take" /\ aux.last.e.valid /\ aux.last.e.has_value
  /\ aux.last.at = 2
  /\ aux.c.col.def[1] < aux.c.col.max_def
  /\ aux.c.col.def[2] = aux.c.col.max_def
  /\ aux.last.e.value = aux.c.col.val[2]
  /\ aux.c.col.val[1] # aux.c.col.val[2]

\* --------------------------------------------------------------------- C24
\* What a call handed back to its caller.
HandedBack(l) == <<l.nil, l.e, l.thr>>

\* One call on the cursor, seen from both sides.
PeekKeepsPlace ==
  aux'.last.op = "peek" => Consumed(aux'.c) = Consumed(aux.c)

PeekAgainSame ==
  (aux.last.op = "peek" /\ aux'.last.op = "peek") =>
     /\ HandedBack(aux'.last) = HandedBack(aux.last)
     /\ aux'.c = aux.c

TakeGivesPeeked ==
  (aux.last.op = "peek" /\ ~aux.last.nil /\ aux'.last.op = "take") =>
     /\ aux'.last.e = aux.last.e
     /\ ~aux'.last.thr

TakeInOrder ==
  aux'.last.op = "take" =>
    LET e == aux'.last.e  col == aux.c.col  p == Consumed(aux.c) + 1 IN
    IF e.valid
    THEN /\ p <= Len(col.def)
         /\ e.def = col.def[p] /\ e.rep = col.rep[p]
         /\ Consumed(aux'.c) = p
    ELSE /\ Consumed(aux'.c) = Consumed(aux.c)
         /\ aux'.last.thr \/ Consumed(aux.c) = Len(col.def)

\* C24: peek consumes nothing, so a second peek returns the same entry from
\* an unchanged cursor and the next take returns the peeked entry; each take
\* returns the next level slot of the column, in order and once.
C24_PeekThenTake ==
  [][(aux.prog = "cursor" /\ aux'.prog = "cursor") =>
       PeekKeepsPlace /\ PeekAgainSame /\ TakeGivesPeeked /\ TakeInOrder]_vars

\* The fourth or a later call, a take, has returned the second level slot of
\* a column out of a buffer filled by a second read.
C24_Witness ==
  /\ aux.prog = "cursor"
  /\ aux.nops >= 4
  /\ aux.last.op = "take" /\ aux.last.e.valid /\ aux.last.at = 1
  /\ aux.c.nreads = 2
  /\ Len(aux.c.col.def) >= 3

\* --------------------------------------------------------------------- C25
\* C25: the entries a cursor hands out do not depend on buffering: a cursor
\* that refills in batches, over a column whose reads are split at any page
\* boundaries, returns to every call what a cursor fed one level at a time
\* returns, and stands at the same slot.
C25_SameEntriesAnySplit ==
  aux.prog = "cursor" =>
    /\ aux.last = aux.ref
    /\ Consumed(aux.c) = Consumed(aux.one)

\* A column of three or more levels has been taken to its third slot in
\* fewer reads than the level-at-a-time cursor needed, one of them cut short
\* by a page boundary.
C25_Witness ==
  /\ aux.prog = "cursor"
  /\ aux.last.op = "take" /\ aux.last.e.valid /\ aux.last.at = 2
  /\ aux.c.col.pages # {}
  /\ aux.c.nreads >= 2
  /\ aux.c.nreads < aux.one.nreads

\* --------------------------------------------------------------------- C26
\* A peek or take came back with no entry and without raising: a read of the
\* column returned no levels.
FoundEnd(l) == l.op \in {"peek", "take"} /\ l.e = NoEntry /\ ~l.thr

AfterEnd ==
  (aux.prog = "cursor" /\ aux'.prog = "cursor" /\ FoundEnd(aux.last)) =>
     /\ aux'.c.nreads = aux.c.nreads
     /\ ~aux'.last.thr
     /\ aux'.last.e = NoEntry
     /\ aux'.last.op = "peek" => aux'.last.nil
     /\ aux'.last.op = "take" => ~aux'.last.e.valid
     /\ aux'.last.op = "list" => aux'.last.count = 0

\* C26: once a read of the column has returned no levels the cursor is at the
\* end for good: the call that issued the read returns no entry, every later
\* peek returns none and every later take an invalid one, none raises, and
\* the column is not read again.
C26_EndIsFinal ==
  /\ [](aux.prog = "cursor" =>
          /\ FoundEnd(aux.last) => (aux.c.eof /\ Consumed(aux.c) = Len(aux.c.col.def))
          /\ (aux.c.eof /\ aux.last.op \in {"peek", "take"}) => FoundEnd(aux.last))
  /\ [][AfterEnd]_vars

\* A column of two or more levels has been read to its end, and a peek and a
\* take have been made after the call that found the end.
C26_Witness ==
  /\ aux.prog = "cursor"
  /\ aux.c.eof /\ ~aux.c.has_pending
  /\ Len(aux.c.col.def) >= 2
  /\ aux.last.op = "take" /\ aux.ref.op = "take"
  /\ aux.nops >= Len(aux.c.col.def) + 3
  /\ aux.c.nreads >= 2

\* --------------------------------------------------------------------- C30
\* Slots a+1..b of a column are one row taken from slot a+1 on: the first
\* slot, then every slot that continues the list, up to where the column ends
\* or the next row starts.
OneRowFrom(col, a, b) ==
  IF a >= Len(col.def) THEN b = a
  ELSE /\ b > a /\ b <= Len(col.def)
       /\ \A i \in (a + 2)..b : col.rep[i] # 0
       /\ b = Len(col.def) \/ col.rep[b + 1] = 0

\* C30: when append_list_from_leaf_for_row returns, the cursor is at the end
\* of the column or its next entry has repetition level 0; the call consumed
\* the row's first entry and every following entry of nonzero repetition
\* level, and none of the next row.
C30_StopsAtRowEnd ==
  (aux.prog = "cursor" /\ aux.last.op = "list" /\ ~aux.last.thr) =>
    /\ ~Peek(aux.c).thr => (Peek(aux.c).nil \/ Peek(aux.c).e.rep = 0)
    /\ (Peek(aux.c).nil /\ ~Peek(aux.c).thr) <=> Consumed(aux.c) = Len(aux.c.col.def)
    /\ OneRowFrom(aux.c.col, aux.last.at, Consumed(aux.c))

\* A list of two elements has been assembled and the first entry of the next
\* row waits in the cursor.
C30_Witness ==
  /\ aux.prog = "cursor"
  /\ aux.last.op = "list" /\ ~aux.last.thr /\ aux.last.count = 2
  /\ aux.c.has_pending /\ aux.c.pending.rep = 0
  /\ Consumed(aux.c) = aux.last.at + 2
  /\ Consumed(aux.c) < Len(aux.c.col.def)

\* --------------------------------------------------------------------- C31
\* The next entry of the column under cursor c is absent (no value) with
\* repetition level 0.
StartsAbsent(c) ==
  /\ Consumed(c) < Len(c.col.def)
  /\ c.col.def[Consumed(c) + 1] < c.col.max_def
  /\ c.col.rep[Consumed(c) + 1] = 0

\* The legs the selection reads, and the row the step has just processed.
Legs == aux.sel
RowOf(a) == a.hist[Len(a.hist)]

\* The step consumed one entry of every leg read, appended nothing and
\* reported no element.
TookOneAppendedNone ==
  /\ ~RowOf(aux').thr
  /\ RowOf(aux').added = 0
  /\ \A leg \in Legs :
       /\ Consumed(aux'.st.cur[leg]) = Consumed(aux.st.cur[leg]) + 1
       /\ aux'.st.bufs[leg] = aux.st.bufs[leg]
  /\ \A leg \in {"ask_px", "ask_qty"} \ Legs : aux'.st.cur[leg] = aux.st.cur[leg]

\* C31: when the next entry of a list leaf is absent with repetition level 0,
\* the assembler consumes exactly that entry, appends nothing and reports 0
\* elements; the paired assembler does so when both legs start that way, and
\* consumes one entry of each.
C31_EmptyStart ==
  [][(aux.prog = "legs" /\ aux'.prog = "legs" /\ aux'.hist # aux.hist
        /\ \A leg \in Legs : StartsAbsent(aux.st.cur[leg]))
      => TookOneAppendedNone]_vars

\* The second row of an in-window pair of legs was an empty list on both,
\* after a first row with elements.
C31_Witness ==
  /\ aux.prog = "legs" /\ aux.sel = {"ask_px", "ask_qty"}
  /\ Len(aux.hist) = 2
  /\ aux.hist[1].in_range /\ aux.hist[1].added = 2
  /\ aux.hist[2].in_range /\ aux.hist[2].added = 0 /\ ~aux.hist[2].thr
  /\ \A leg \in aux.sel : StartsAbsent(aux.hist[2].cur[leg])
  /\ aux.st.bufs["ask_off"] = <<0, 2, 2>>

\* --------------------------------------------------------------------- C32
\* Level slots of a leg the step consumed, and values it appended.
Eaten(leg) == Consumed(aux'.st.cur[leg]) - Consumed(aux.st.cur[leg])
Pushed(leg) == Len(aux'.st.bufs[leg]) - Len(aux.st.bufs[leg])

\* The paired call that reported n elements went on while the two legs' next
\* repetition levels agreed, and stopped where a leg ends, the next row
\* begins, or the levels differ.
EndsAtFirstDifference ==
  LET px  == aux.st.cur["ask_px"].col    a == Consumed(aux.st.cur["ask_px"])
      qty == aux.st.cur["ask_qty"].col   b == Consumed(aux.st.cur["ask_qty"])
      n   == RowOf(aux').added
  IN (~RowOf(aux').thr /\ n >= 1) =>
       /\ Eaten("ask_px") = n
       /\ \A j \in 1..(n - 1) : /\ px.rep[a + j + 1] = qty.rep[b + j + 1]
                                /\ px.rep[a + j + 1] # 0
       /\ \/ a + n = Len(px.def) \/ b + n = Len(qty.def)
          \/ px.rep[a + n + 1] = 0
          \/ px.rep[a + n + 1] # qty.rep[b + n + 1]

LockStep ==
  (aux.prog = "legs" /\ aux'.prog = "legs" /\ aux'.hist # aux.hist
     /\ aux.sel = {"ask_px", "ask_qty"}) =>
       /\ Eaten("ask_px") = Eaten("ask_qty")
       /\ Pushed("ask_px") = Pushed("ask_qty")
       /\ RowOf(aux').in_range => (RowOf(aux').thr \/ Pushed("ask_px") = RowOf(aux').added)
       /\ EndsAtFirstDifference

\* C32: every call of the paired assembler consumes as many entries of the
\* price leg as of the quantity leg and appends as many values to one output
\* as to the other, so the two value buffers of the book side have equal
\* length; the row's list ends at the first position where the two legs'
\* next repetition levels differ.
C32_LockStep ==
  /\ [](aux.prog = "legs" /\ aux.sel = {"ask_px", "ask_qty"} =>
          /\ Len(aux.st.bufs["ask_px"]) = Len(aux.st.bufs["ask_qty"])
          /\ Consumed(aux.st.cur["ask_px"]) = Consumed(aux.st.cur["ask_qty"]))
  /\ [][LockStep]_vars

\* An in-window price list of two elements met a quantity list of one: the
\* call reported one pair and each buffer holds one value.
C32_Witness ==
  /\ aux.prog = "legs" /\ aux.sel = {"ask_px", "ask_qty"}
  /\ Len(aux.hist) = 1 /\ aux.hist[1].in_range /\ ~aux.hist[1].thr
  /\ aux.hist[1].added = 1
  /\ \A leg \in aux.sel : Len(aux.st.cur[leg].col.rep) >= 2
  /\ SubSeq(aux.st.cur["ask_px"].col.rep, 1, 2) = <<0, 1>>
  /\ SubSeq(aux.st.cur["ask_qty"].col.rep, 1, 2) = <<0, 0>>
  /\ Len(aux.st.bufs["ask_px"]) = 1 /\ Len(aux.st.bufs["ask_qty"]) = 1

\* --------------------------------------------------------------------- C33
\* The cursor stands at the end of its column or before an entry of
\* repetition level 0.
AtRowBoundary(c) ==
  Consumed(c) = Len(c.col.def) \/ c.col.rep[Consumed(c) + 1] = 0

\* Elements of physical row k of a list leaf.
RowCount(col, k) == Cardinality({p \in RowSlots(col, k) : col.def[p] = col.max_def})

\* Row k is stored on both legs with the same repetition levels.
LegsAgreeOn(px, qty, k) ==
  /\ RowSlots(px, k) # {}
  /\ Cardinality(RowSlots(px, k)) = Cardinality(RowSlots(qty, k))
  /\ RowCount(px, k) = RowCount(qty, k)

LaterCountsKept ==
  LET px == aux.st.cur["ask_px"].col  qty == aux.st.cur["ask_qty"].col IN
  \A k \in DOMAIN aux.hist :
     (~aux.hist[k].thr /\ LegsAgreeOn(px, qty, k)) => aux.hist[k].added = RowCount(px, k)

\* C33: after each call of the paired assembler both leg cursors stand at a
\* row boundary, so a disagreement of repetition levels or an early end of
\* one leg inside a row leaves the counts reported for the other rows of the
\* row group as they are stored.
C33_PairAtRowBoundary ==
  (aux.prog = "legs" /\ aux.sel = {"ask_px", "ask_qty"}) =>
     /\ ~aux.st.thr => \A leg \in aux.sel : AtRowBoundary(aux.st.cur[leg])
     /\ LaterCountsKept

\* --------------------------------------------------------------------- C34
\* The value the cursor hands out for level slot p of a column.
SlotValue(col, p) ==
  IF col.def[p] = col.max_def THEN col.val[PresentUpTo(col, p)] ELSE 0

\* The values the rows 1..k of the history put into the buffer of a leg: for
\* an in-window row the slots from where its call started, as many as it
\* reported.
RECURSIVE InWindowValues(_, _)
InWindowValues(leg, k) ==
  IF k = 0 THEN <<>>
  ELSE LET h == aux.hist[k]
           a == Consumed(h.cur[leg])
       IN InWindowValues(leg, k - 1) \o
          (IF h.in_range THEN [j \in 1..h.added |-> SlotValue(h.cur[leg].col, a + j)]
           ELSE <<>>)

RECURSIVE InWindowOffsets(_)
InWindowOffsets(k) ==
  IF k = 0 THEN <<0>>
  ELSE LET offs == InWindowOffsets(k - 1) IN
       IF aux.hist[k].in_range THEN Append(offs, offs[Len(offs)] + aux.hist[k].added)
       ELSE offs

\* A row outside the window: nothing is written, and the cursors and the
\* count are those of the same row taken inside the window.
SameAsInWindow ==
  (aux.prog = "legs" /\ aux'.prog = "legs" /\ aux'.hist # aux.hist
     /\ ~RowOf(aux').in_range) =>
       /\ aux'.st.bufs = aux.st.bufs
       /\ With(DepthSide(aux.st, aux.sel, "ask_px", "ask_qty", TRUE), LAMBDA w :
            /\ aux'.st.cur = w.st.cur
            /\ aux'.st.thr = w.st.thr
            /\ RowOf(aux').added = w.added)

\* C34: a row outside the window leaves the value buffers and the offsets as
\* they were and consumes from each list cursor what an in-window row
\* consumes; the value buffers hold the elements of the in-window rows only.
C34_OutOfWindowRows ==
  /\ []((aux.prog = "legs" /\ ~aux.st.thr) =>
          /\ \A leg \in aux.sel : aux.st.bufs[leg] = InWindowValues(leg, Len(aux.hist))
          /\ \A leg \in {"ask_px", "ask_qty"} \ aux.sel : aux.st.bufs[leg] = <<>>
          /\ aux.st.bufs["ask_off"] = InWindowOffsets(Len(aux.hist)))
  /\ [][SameAsInWindow]_vars

\* A first row of two elements lay outside the window and a second row of
\* one element inside: the buffers hold the second row's element alone.
C34_Witness ==
  /\ aux.prog = "legs" /\ aux.sel = {"ask_px", "ask_qty"}
  /\ Len(aux.hist) = 2
  /\ ~aux.hist[1].in_range /\ aux.hist[1].added = 2
  /\ aux.hist[2].in_range /\ aux.hist[2].added = 1 /\ ~aux.st.thr
  /\ Len(aux.st.cur["ask_px"].col.val) = 3
  /\ aux.st.bufs["ask_px"] = <<aux.st.cur["ask_px"].col.val[3]>>
  /\ aux.st.bufs["ask_off"] = <<0, 1>>

\* --------------------------------------------------------------------- C35
\* The candidates opened so far, each once and in the order of the list.
OpenedOnceInOrder ==
  \A i, j \in DOMAIN opens : i < j => opens[i] < opens[j]

\* The decoder held, if any, is that of the file at the current index; with
\* none held, every file opened lies behind the index.
DecoderOfCurrentFile ==
  /\ fs_.open => /\ file_idx_ < Len(files_)
                 /\ opens # <<>>
                 /\ opens[Len(opens)] = file_idx_ + 1
  /\ ~fs_.open => \A i \in DOMAIN opens : opens[i] <= file_idx_

\* One iteration: the index does not go back; it advances only with the
\* decoder gone; a decoder is created only with none held, for the file at
\* the index.
DecoderStep ==
  /\ file_idx_' >= file_idx_
  /\ file_idx_' # file_idx_ => (~fs_'.open /\ file_idx_' = file_idx_ + 1)
  /\ opens' # opens => /\ ~fs_.open
                       /\ opens' = Append(opens, file_idx_ + 1)
  /\ (fs_.open /\ fs_'.open) => file_idx_' = file_idx_

\* C35: a batch reader holds at most one open file decoder: it is created
\* only for the file at the current file index, it is discarded when that
\* file is exhausted or fails, before the index advances, each candidate is
\* opened at most once, the index never decreases, and none is held once
\* next() has returned false.
C35_OneDecoder ==
  /\ [](OpenedOnceInOrder /\ DecoderOfCurrentFile /\ (ret = "false" => ~fs_.open))
  /\ [][DecoderStep]_vars

\* next() has returned false after a file was left at a failed read and a
\* later one was read to its end.
C35_Witness ==
  /\ ret = "false" /\ ~fs_.open
  /\ Len(opens) >= 2
  /\ \E i \in DOMAIN warns : warns[i][1] = "read failed" /\ warns[i][2] < opens[Len(opens)]
  /\ delivered # <<>>

\* --------------------------------------------------------------------- C36
\* No decoder is held and no candidate is left.
Exhausted == ~fs_.open /\ file_idx_ >= Len(files_)

\* What a call on an exhausted reader may not touch: the files opened, the
\* reads issued, the view, the batches handed out, the reader's position.
Untouched ==
  UNCHANGED <<opens, reads, out, delivered, file_idx_, fs_, warns, raised>>

\* A reader that has returned false is entered again and nothing else; the
\* call entered on an exhausted reader returns false.
AfterFalse ==
  /\ ret = "false" => (ret' = "running" /\ Untouched)
  /\ (ret = "running" /\ Exhausted) => (ret' = "false" /\ Untouched)

\* C36: exhaustion is permanent: once next() has returned false, every later
\* call returns false, opens no file and leaves the caller's view as it was.
C36_ExhaustionPermanent ==
  /\ [](ret = "false" => Exhausted)
  /\ [][AfterFalse]_vars

\* A call is running on a reader that has no candidate left, after batches
\* were handed out and with the last view still in the caller's object.
C36_Witness ==
  /\ ret = "running" /\ Exhausted
  /\ delivered # <<>>
  /\ out = delivered[Len(delivered)].view
  /\ out.n > 0

\* --------------------------------------------------------------------- C37
\* Batch b holds the in-window rows of row group g of candidate fi, all of
\* them and nothing else, and names that candidate's file.
FromOneRowGroup(b, fi, g) ==
  /\ fi \in DOMAIN files_
  /\ g \in DOMAIN FileAt(Cfg, fi).rgs
  /\ RowsAligned(b, FileAt(Cfg, fi).rgs[g], kind, sel_, start_ns_, end_ns_)
  /\ b.view.file = Filename(files_[fi].path)
  /\ b.view.file # <<>>

\* C37: all rows of a batch come from one row group of one file, and
\* view.file is the basename of that file, also when files before it failed
\* to open or were skipped.
C37_OneRowGroupOneFile ==
  /\ \A i \in DOMAIN delivered :
       FromOneRowGroup(delivered[i], delivered[i].file, delivered[i].rg)
  /\ ret = "true" =>
       /\ delivered # <<>>
       /\ out = delivered[Len(delivered)].view
       /\ fs_.open
       /\ delivered[Len(delivered)].file = file_idx_ + 1
       /\ out.file = cur_file_base_

\* A batch was handed out from a later candidate after an earlier one failed
\* to open or was left at a failed read.
C37_Witness ==
  /\ ret = "true"
  /\ file_idx_ >= 1
  /\ \E i \in DOMAIN warns : warns[i][2] < file_idx_ + 1
  /\ out.file = Filename(files_[file_idx_ + 1].path)
  /\ out.n > 0

\* --------------------------------------------------------------------- C38
\* The view fields that have a Select flag, and the scalar ones among them.
FlaggedFields(k) ==
  {"ts"} \cup (IF k = "depth" THEN Range(DepthScalarFlags) \cup Range(DepthListFlags)
               ELSE Range(ScalarFlags(k)))

ScalarFields(k) ==
  {"ts"} \cup (IF k = "depth" THEN Range(DepthScalarFlags) ELSE Range(ScalarFlags(k)))

\* View v over buffers data, of a batch decoded from row group rg: null
\* pointers for the flags that are off, n the count of the stored timestamps
\* of rg that lie in the window, n values in every selected scalar buffer.
ViewAsSelected(v, data, rg) ==
  /\ \A c \in FlaggedFields(kind) \ sel_ : ~v.ptr[c]
  /\ v.n = Len(InWin(rg.col["ts"].val, start_ns_, end_ns_))
  /\ v.n > 0
  /\ Len(data["ts"]) = v.n
  /\ \A c \in ScalarFields(kind) \cap sel_ : Len(data[c]) = v.n

\* C38: in every returned view the pointer of each field whose Select flag is
\* false is null, and every selected scalar column buffer holds n values, n
\* being the number of in-window rows of the row group, also when the ts
\* flag is false.
C38_ViewAsSelected ==
  /\ \A i \in DOMAIN delivered :
       ViewAsSelected(delivered[i].view, delivered[i].data,
                      FileAt(Cfg, delivered[i].file).rgs[delivered[i].rg])
  /\ ret = "true" => (out = delivered[Len(delivered)].view
                        /\ bufs = delivered[Len(delivered)].data)

\* ---------------------------------------------------------------------------
\* binary_operations: sum_and_carry over strings of '0' and '1'
\* ---------------------------------------------------------------------------

\* The longest operand drawn.
MaxBits == 3

\* Strings are sequences of one-character strings.
BinStrings == UNION {[1..n -> {"0", "1"}] : n \in 0..MaxBits}

\* Mutant of add_one: the operand is left as it is.
add_one_Skip(bin) == bin

\* add_one: from the last character leftwards, a '0' becomes '1' and ends the
\* loop, anything else becomes '0' and the carry goes on.
add_one(bin) ==
  LET RECURSIVE loop(_, _)
      loop(b, i) ==
        IF i < 1 THEN b
        ELSE IF b[i] = "0" THEN [b EXCEPT ![i] = "1"]
        ELSE loop([b EXCEPT ![i] = "0"], i - 1)
  IN loop(bin, Len(bin))

\* sum_and_carry: "" on a length mismatch; for '-' the second operand is
\* inverted and incremented; then a ripple addition from the last character,
\* the carry out of the first one only printed.
sum_and_carry(sa, sb, op) ==
  IF Len(sa) # Len(sb) THEN [sum |-> <<>>, carry |-> 0, err |-> TRUE]
  ELSE
    LET n == Len(sa)
        b2 == IF op = "-"
              THEN add_one([i \in 1..n |-> IF sb[i] = "1" THEN "0" ELSE "1"])
              ELSE sb
        RECURSIVE loop(_, _, _)
        loop(sum, i, carry) ==
          IF i < 1 THEN [sum |-> sum, carry |-> carry, err |-> FALSE]
          ELSE LET bit_a == IF sa[i] = "1" THEN 1 ELSE 0
                   bit_b == IF b2[i] = "1" THEN 1 ELSE 0
                   t == bit_a + bit_b + carry
               IN loop([sum EXCEPT ![i] = IF t % 2 = 1 THEN "1" ELSE "0"], i - 1,
                       IF t >= 2 THEN 1 ELSE 0)
    IN loop([i \in 1..n |-> "0"], n, 0)

\* The operands and the operator a caller passes.
InitBin ==
  /\ LibIdle
  /\ \E sa \in BinStrings, sb \in BinStrings, op \in {"+", "-"} :
       aux = [prog |-> "bin", sa |-> sa, sb |-> sb, op |-> op, done |-> FALSE,
              sum |-> <<>>, carry |-> 0, err |-> FALSE]

\* One call of sum_and_carry(sa, sb, op).
call_sum_and_carry ==
  /\ aux.prog = "bin"
  /\ ~aux.done
  /\ aux' = With(sum_and_carry(aux.sa, aux.sb, aux.op),
                 LAMBDA res : [aux EXCEPT !.done = TRUE, !.sum = res.sum,
                                          !.carry = res.carry, !.err = res.err])
  /\ UNCHANGED lib

SpecBin == InitBin /\ [][call_sum_and_carry]_vars

\* The number a binary string writes, and the n-character string of a number.
RECURSIVE BinValue(_)
BinValue(bits) ==
  IF bits = <<>> THEN 0
  ELSE 2 * BinValue(SubSeq(bits, 1, Len(bits) - 1)) + (IF bits[Len(bits)] = "1" THEN 1 ELSE 0)

RECURSIVE Pow2(_)
Pow2(n) == IF n = 0 THEN 1 ELSE 2 * Pow2(n - 1)

NBits(v, n) == [i \in 1..n |-> IF (v \div Pow2(n - i)) % 2 = 1 THEN "1" ELSE "0"]

\* C18: for operands of equal length n the result is the n-bit string of
\* (a + b) mod 2^n for '+' and of (a - b) mod 2^n for '-'; for operands of
\* different length it is the empty string.
C18_SumModPow2 ==
  (aux.prog = "bin" /\ aux.done) =>
    LET n == Len(aux.sa)
        a == BinValue(aux.sa)
        b == BinValue(aux.sb)
    IN IF Len(aux.sb) # n THEN aux.sum = <<>>
       ELSE aux.sum = NBits((IF aux.op = "+" THEN a + b ELSE a - b + Pow2(n)) % Pow2(n), n)

\* A subtraction that borrows, an addition that carries out, and a mismatch.
C18_Witness ==
  /\ aux.prog = "bin" /\ aux.done
  /\ aux.op = "-"
  /\ Len(aux.sa) = Len(aux.sb) /\ Len(aux.sa) >= 2
  /\ BinValue(aux.sa) < BinValue(aux.sb)
  /\ aux.sb[Len(aux.sb)] = "0"
  /\ aux.sum = NBits(BinValue(aux.sa) - BinValue(aux.sb) + Pow2(Len(aux.sa)), Len(aux.sa))

\* ---------------------------------------------------------------------------
\* base_converter: to_decimal, from_decimal
\* ---------------------------------------------------------------------------

\* The longest digit string drawn, and the width of long long in the model.
MaxDigits == 3
LLBits == 12

LLMax == Pow2(LLBits - 1) - 1

\* The result of a signed operation of that width that wraps.
Wrap(v) == ((v + Pow2(LLBits - 1)) % Pow2(LLBits)) - Pow2(LLBits - 1)

\* The characters '0'..'9', 'A'..'F', 'a'..'f' and their codes.
Digits10 == <<"0", "1", "2", "3", "4", "5", "6", "7", "8", "9">>
UpperAF == <<"A", "B", "C", "D", "E", "F">>
LowerAF == <<"a", "b", "c", "d", "e", "f">>

Ascii(c) ==
  IF \E i \in 1..10 : Digits10[i] = c THEN 47 + (CHOOSE i \in 1..10 : Digits10[i] = c)
  ELSE IF \E i \in 1..6 : UpperAF[i] = c THEN 64 + (CHOOSE i \in 1..6 : UpperAF[i] = c)
  ELSE 96 + (CHOOSE i \in 1..6 : LowerAF[i] = c)

Chr(n) ==
  IF n \in 48..57 THEN Digits10[n - 47]
  ELSE IF n \in 65..70 THEN UpperAF[n - 64]
  ELSE LowerAF[n - 96]

\* char_to_val: c - '0' for a decimal digit, else toupper(c) - 'A' + 10.
char_to_val(c) ==
  LET n == Ascii(c)
  IN IF n \in 48..57 THEN n - 48
     ELSE (IF n \in 97..122 THEN n - 32 ELSE n) - 65 + 10

\* Mutant of val_to_char: letters in lower case.
val_to_char_Lower(val) == IF val < 10 THEN Chr(48 + val) ELSE Chr(97 + (val - 10))

\* val_to_char: '0' + val below ten, else 'A' + (val - 10).
val_to_char(val) == IF val < 10 THEN Chr(48 + val) ELSE Chr(65 + (val - 10))

\* to_decimal: value = value * b1 + digit over the characters; exit(1) at the
\* first digit >= b1. ub: a step left the range of long long.
to_decimal(num, b1) ==
  LET RECURSIVE loop(_, _, _)
      loop(i, value, ub) ==
        IF i > Len(num) THEN [exit |-> FALSE, value |-> value, ub |-> ub]
        ELSE LET digit == char_to_val(num[i])
                 v == value * b1 + digit
             IN IF digit >= b1 THEN [exit |-> TRUE, value |-> value, ub |-> ub]
                ELSE loop(i + 1, Wrap(v), ub \/ v > LLMax \/ v < 0 - LLMax - 1)
  IN loop(1, 0, FALSE)

\* from_decimal: "0" for zero; else the remainders of decimal by b2 while
\* decimal > 0, reversed.
from_decimal(decimal, b2) ==
  LET RECURSIVE loop(_, _)
      loop(d, result) ==
        IF d > 0 THEN loop(d \div b2, <<val_to_char(d % b2)>> \o result) ELSE result
  IN IF decimal = 0 THEN <<"0">> ELSE loop(decimal, <<>>)

\* The characters and the bases the strings are drawn from.
InChars == {"0", "1", "7", "9", "A", "a", "F", "f"}
Bases == 2..16

InitConv ==
  /\ LibIdle
  /\ \E num \in UNION {[1..n -> InChars] : n \in 0..MaxDigits}, b \in Bases :
       aux = [prog |-> "conv", num |-> num, b |-> b, stage |-> "start", value |-> 0,
              ub |-> FALSE, result |-> <<>>]

\* to_decimal(num, b) is called: it returns or the process exits. After a
\* signed overflow the build either wraps or traps.
to_decimal_call ==
  /\ aux.prog = "conv"
  /\ aux.stage = "start"
  /\ \E trap \in BOOLEAN :
       aux' = With(to_decimal(aux.num, aux.b),
                   LAMBDA res : [aux EXCEPT !.stage = IF res.ub /\ trap THEN "trapped"
                                                      ELSE IF res.exit THEN "exited"
                                                      ELSE "decimal",
                                            !.value = res.value, !.ub = res.ub])
  /\ UNCHANGED lib

\* from_decimal is called with what to_decimal returned and the same base.
from_decimal_call ==
  /\ aux.prog = "conv"
  /\ aux.stage = "decimal"
  /\ aux' = [aux EXCEPT !.stage = "done", !.result = from_decimal(aux.value, aux.b)]
  /\ UNCHANGED lib

NextConv == to_decimal_call \/ from_decimal_call

SpecConv == InitConv /\ [][NextConv]_vars

\* The digit a character writes, its upper-case form, and the number a digit
\* string writes in base b.
HexDigits == Digits10 \o UpperAF
UpperOf(c) == IF \E i \in 1..6 : LowerAF[i] = c THEN UpperAF[CHOOSE i \in 1..6 : LowerAF[i] = c] ELSE c
DigitOf(c) == (CHOOSE i \in 1..16 : HexDigits[i] = UpperOf(c)) - 1
ValidDigits(num, b) == num # <<>> /\ \A i \in DOMAIN num : DigitOf(num[i]) < b

RECURSIVE NumberOf(_, _)
NumberOf(num, b) ==
  IF num = <<>> THEN 0
  ELSE b * NumberOf(SubSeq(num, 1, Len(num) - 1), b) + DigitOf(num[Len(num)])

NThreads == 2
MaxCalls == 3

Threads == 1..NThreads

\* The calls of the logger's interface with the arguments that take its
\* branches: an empty or a given path; a message; an empty response, one that
\* parses and one json::parse throws on.
LogCalls ==
  {[fn |-> "init_logger", arg |-> a] : a \in {"", "bot.log"}}
    \cup {[fn |-> "log_message", arg |-> "msg"]}
    \cup {[fn |-> "log_order_response", arg |-> a] : a \in {"", "order", "garbage"}}

\* Static initialisers: g_log_fp = nullptr, g_log_mutex unlocked (owner 0),
\* g_log_path = "". No thread is inside the logger.
InitLog ==
  /\ LibIdle
  /\ aux = [prog |-> "log", g_log_fp |-> FALSE, g_log_path |-> "", owner |-> 0,
            pc |-> [t \in Threads |-> "idle"],
            call |-> [t \in Threads |-> [fn |-> "none", arg |-> ""]],
            wrote |-> [t \in Threads |-> FALSE],
            threw |-> [t \in Threads |-> FALSE],
            calls |-> 0, file |-> <<>>, console |-> <<>>]

\* Thread t enters init_logger, log_message or log_order_response and stands
\* at its std::lock_guard.
enter(t) ==
  /\ aux.prog = "log"
  /\ aux.pc[t] = "idle"
  /\ aux.calls < MaxCalls
  /\ \E c \in LogCalls :
       aux' = [aux EXCEPT !.pc[t] = "lock", !.call[t] = c, !.wrote[t] = FALSE,
                          !.threw[t] = FALSE, !.calls = @ + 1]
  /\ UNCHANGED lib

\* std::lock_guard<std::mutex> lock(g_log_mutex) of the function entered: it
\* returns once no thread owns the mutex.
acquire(t) ==
  /\ aux.prog = "log"
  /\ aux.pc[t] = "lock"
  /\ aux.owner = 0
  /\ aux' = [aux EXCEPT !.owner = t, !.pc[t] = "locked"]
  /\ UNCHANGED lib

\* The lines init_logger writes into a file it opened.
Header == <<"started", "columns">>

\* init_logger under its lock: nothing when the file is open; else the path
\* is stored and fopen is tried; the header goes into the opened file. The
\* guard is released at the return.
init_logger_body(t) ==
  /\ aux.prog = "log"
  /\ aux.pc[t] = "locked"
  /\ aux.call[t].fn = "init_logger"
  /\ IF aux.g_log_fp
       THEN aux' = [aux EXCEPT !.owner = 0, !.pc[t] = "idle"]
       ELSE \E opened \in BOOLEAN :
              aux' = [aux EXCEPT !.g_log_path = IF aux.call[t].arg = "" THEN "./bot_output.txt"
                                                ELSE aux.call[t].arg,
                                 !.g_log_fp = opened,
                                 !.file = IF opened THEN @ \o Header ELSE @,
                                 !.owner = 0, !.pc[t] = "idle"]
  /\ UNCHANGED lib

\* The lines log_message and log_order_response print for their argument.
LinesOf(c) ==
  IF c.fn = "log_message" THEN <<"MSG">>
  ELSE IF c.arg = "" THEN <<"ERR empty">>
  ELSE IF c.arg = "order" THEN <<"ORDER", "RAW">>
  ELSE <<"ERR parse", "RAW">>

\* log_message / log_order_response under their lock. With g_log_fp null
\* they call init_logger, which stands at its own lock_guard while the
\* caller's guard holds the mutex. Else the lines go to the console and the
\* file, and the guard is released at the return.
log_body(t) ==
  /\ aux.prog = "log"
  /\ aux.pc[t] = "locked"
  /\ aux.call[t].fn \in {"log_message", "log_order_response"}
  /\ IF ~aux.g_log_fp
       THEN aux' = [aux EXCEPT !.pc[t] = "relock"]
       ELSE aux' = [aux EXCEPT !.console = @ \o LinesOf(aux.call[t]),
                               !.file = IF aux.g_log_fp THEN @ \o LinesOf(aux.call[t]) ELSE @,
                               !.wrote[t] = TRUE, !.owner = 0, !.pc[t] = "idle"]
  /\ UNCHANGED lib

\* The lock_guard of init_logger on a std::mutex its own thread owns:
\* undefined. The thread blocks for ever, or lock() throws
\* std::system_error, which leaves log_message / log_order_response through
\* the caller's guard.
relock(t) ==
  /\ aux.prog = "log"
  /\ aux.pc[t] = "relock"
  /\ \/ aux' = [aux EXCEPT !.pc[t] = "blocked"]
     \/ aux' = [aux EXCEPT !.threw[t] = TRUE, !.owner = 0, !.pc[t] = "idle"]
  /\ UNCHANGED lib

step(t) == acquire(t) \/ init_logger_body(t) \/ log_body(t) \/ relock(t)

NextLog == \E t \in Threads : enter(t) \/ step(t)

\* A thread that can run does run.
Scheduled == \A t \in Threads : WF_vars(step(t))

SpecLog == InitLog /\ [][NextLog]_vars /\ Scheduled

\* C20: every call of log_message or log_order_response, in any logger state
\* (init_logger never called or failed to open the file included), acquires
\* the mutex, writes its line and returns.
C20_EveryCallReturns ==
  \A t \in Threads :
    (aux.pc[t] = "lock" /\ aux.call[t].fn \in {"log_message", "log_order_response"})
      ~> (aux.pc[t] = "idle" /\ aux.wrote[t])

\* ---------------------------------------------------------------------------
\* bot_binance: LadderStrategy's reservation bookkeeping
\* ---------------------------------------------------------------------------

\* Quote amounts are whole units; the bot starts with InitialCapital.
InitialCapital == 4
MaxAmount == 2
\* Reservations made and SELL fills processed in a run.
MaxReserves == 2
MaxSells == 1

\* The order ids the exchange hands out.
OrderIds == 1..2

\* A map id -> amount is the set of its <<id, amount>> pairs.
HasKey(m, id) == \E p \in m : p[1] = id
AmountOf(m, id) == (CHOOSE p \in m : p[1] = id)[2]
Erase(m, id) == {p \in m : p[1] # id}

RECURSIVE TotalOf(_)
TotalOf(m) ==
  IF m = {} THEN 0
  ELSE LET p == CHOOSE q \in m : TRUE IN p[2] + TotalOf(m \ {p})

\* LadderStrategy::reserve_capital_for_order; ok = its return value.
reserve_capital_for_order(b, amount) ==
  IF amount <= 0 \/ b.capital_usdt_ < amount THEN b
  ELSE [b EXCEPT !.capital_usdt_ = @ - amount,
                 !.reserved_capital_usdt_ = @ + amount,
                 !.next_local_reserve_id_ = @ - 1,
                 !.temp_local_reservations_ = @ \cup {<<b.next_local_reserve_id_, amount>>}]

\* LadderStrategy::attach_reservation_to_order
attach_reservation_to_order(b, local_reserve_id, order_id) ==
  IF ~HasKey(b.temp_local_reservations_, local_reserve_id) THEN b
  ELSE [b EXCEPT !.temp_local_reservations_ = Erase(@, local_reserve_id),
                 !.order_reservations_ =
                    Erase(@, order_id)
                      \cup {<<order_id, AmountOf(b.temp_local_reservations_, local_reserve_id)>>}]

\* LadderStrategy::release_reservation_for_order
release_reservation_for_order(b, order_id, used_usdt, return_residual_to_capital) ==
  IF ~HasKey(b.order_reservations_, order_id) THEN b
  ELSE LET reserved == AmountOf(b.order_reservations_, order_id)
           residual == IF reserved - used_usdt < 0 THEN 0 ELSE reserved - used_usdt
       IN [b EXCEPT !.reserved_capital_usdt_ = @ - reserved,
                    !.capital_usdt_ = IF return_residual_to_capital /\ residual > 0
                                      THEN @ + residual ELSE @,
                    !.order_reservations_ = Erase(@, order_id)]

\* LadderStrategy::rollback_local_reservation
rollback_local_reservation(b, local_reserve_id) ==
  IF ~HasKey(b.temp_local_reservations_, local_reserve_id) THEN b
  ELSE LET amount == AmountOf(b.temp_local_reservations_, local_reserve_id)
       IN [b EXCEPT !.temp_local_reservations_ = Erase(@, local_reserve_id),
                    !.reserved_capital_usdt_ = @ - amount,
                    !.capital_usdt_ = @ + amount]

\* LadderStrategy::process_filled_order for a BUY: used_quote = avg_price *
\* executed_qty + commission is taken out of the reservation; spent is the
\* quote the fills of the run have cost.
process_filled_buy(b, order_id, used_quote) ==
  [release_reservation_for_order(b, order_id, used_quote, FALSE)
     EXCEPT !.spent = @ + used_quote]

\* LadderStrategy::process_filled_order for a SELL: net = proceeds less
\* commission goes to the free capital.
process_filled_sell(b, net) ==
  [b EXCEPT !.capital_usdt_ = @ + net, !.received = @ + net, !.sells = @ + 1]

\* The reconcile loop of LadderStrategy::poll_open_orders: every reservation
\* whose order is not among the open ones is released in full.
RECURSIVE poll_open_orders(_, _)
poll_open_orders(b, open_ids) ==
  IF \A p \in b.order_reservations_ : p[1] \in open_ids THEN b
  ELSE LET oid == (CHOOSE p \in b.order_reservations_ : p[1] \notin open_ids)[1]
       IN poll_open_orders(release_reservation_for_order(b, oid, 0, TRUE), open_ids)

\* LadderStrategy::LadderStrategy
InitBot ==
  /\ LibIdle
  /\ aux = [prog |-> "bot",
            capital_usdt_ |-> InitialCapital, reserved_capital_usdt_ |-> 0,
            next_local_reserve_id_ |-> 0 - 1,
            temp_local_reservations_ |-> {}, order_reservations_ |-> {},
            spent |-> 0, received |-> 0, sells |-> 0]

\* place_ladder_orders reserves the quote of the next BUY.
reserve ==
  /\ aux.prog = "bot" /\ aux.next_local_reserve_id_ >= 0 - MaxReserves
  /\ \E amount \in 0..MaxAmount : aux' = reserve_capital_for_order(aux, amount)
  /\ UNCHANGED lib

\* place_order answered with an order id, one the exchange has not in use.
attach ==
  /\ aux.prog = "bot"
  /\ \E p \in aux.temp_local_reservations_ :
     \E id \in OrderIds :
       /\ ~HasKey(aux.order_reservations_, id)
       /\ aux' = attach_reservation_to_order(aux, p[1], id)
  /\ UNCHANGED lib

\* place_order failed, or answered without an order id.
rollback ==
  /\ aux.prog = "bot"
  /\ \E p \in aux.temp_local_reservations_ : aux' = rollback_local_reservation(aux, p[1])
  /\ UNCHANGED lib

\* The run loop found a BUY with executedQty > 0 or status FILLED: the fill
\* cost anything from one unit (a partial fill) up to the reservation plus a
\* unit of commission.
buy_filled ==
  /\ aux.prog = "bot"
  /\ \E p \in aux.order_reservations_ :
     \E used_quote \in 1..(p[2] + 1) : aux' = process_filled_buy(aux, p[1], used_quote)
  /\ UNCHANGED lib

\* The run loop found a filled SELL.
sell_filled ==
  /\ aux.prog = "bot" /\ aux.sells < MaxSells
  /\ \E net \in 1..MaxAmount : aux' = process_filled_sell(aux, net)
  /\ UNCHANGED lib

\* poll_open_orders with the open orders the exchange reports.
reconcile ==
  /\ aux.prog = "bot"
  /\ \E open_ids \in SUBSET OrderIds : aux' = poll_open_orders(aux, open_ids)
  /\ UNCHANGED lib

NextBot == reserve \/ attach \/ rollback \/ buy_filled \/ sell_filled \/ reconcile

SpecBot == InitBot /\ [][NextBot]_vars

\* --------------------------------------------------------------------- C39
\* The reserved total is the sum of the outstanding reservations.
ReservedIsSum ==
  aux.reserved_capital_usdt_
    = TotalOf(aux.temp_local_reservations_) + TotalOf(aux.order_reservations_)

\* Free plus reserved capital is the starting capital less what the fills
\* cost plus what the sells brought.
CapitalConserved ==
  aux.capital_usdt_ + aux.reserved_capital_usdt_
    = InitialCapital - aux.spent + aux.received

\* C39: after any sequence of reserve, attach, rollback and release (the
\* release on a filled BUY and the reconcile included) the reserved total
\* equals the sum of the temporary and order-bound reservations, and free
\* plus reserved capital has changed only by what fills cost and sells
\* brought.
C39_CapitalConserved ==
  aux.prog = "bot" => (ReservedIsSum /\ CapitalConserved)

====
